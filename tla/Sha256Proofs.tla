---------------------------- MODULE Sha256Proofs ----------------------------
(***************************************************************************)
(* sha256.c compresses the padded message for every size of a block and of *)
(* its length field, for every message and however it is cut.              *)
(***************************************************************************)
EXTENDS Sha256, TLAPS

Feeding == step \in {"ready", "fill", "blocks"}

\* Every byte that was fed is in a compressed block, waits, or is input that
\* sha256_update has not come to.
Counted ==
  /\ Feeding => data_size = fed
  /\ step = "ready" => fed = BLOCK * Len(hcomps) + chunk_size
  /\ step \in {"fill", "blocks"} =>
       /\ fed = BLOCK * Len(hcomps) + chunk_size + size
       /\ ptr = start + BLOCK * Len(hcomps) + chunk_size

Compressed ==
  Feeding => \A b \in 1 .. Len(hcomps), j \in Index :
               hcomps[b][j] = Data(start + BLOCK * (b - 1) + j)

Waiting ==
  Feeding => \A j \in 0 .. chunk_size - 1 :
               last_chunk[j] = Data(start + BLOCK * Len(hcomps) + j)

\* After the end mark all blocks but the last are those of the padded
\* message, and so is the last one up to the length.
PaddedToLength ==
  step = "length" =>
    /\ data_size = fed
    /\ Len(hcomps) + 1 = Blocks(fed)
    /\ BLOCK * Len(hcomps) + BLOCK - LEN > fed
    /\ \A b \in 1 .. Len(hcomps), j \in Index :
         hcomps[b][j] = PaddedByte(start, fed, BLOCK * (b - 1) + j)
    /\ \A j \in Index :
         j < BLOCK - LEN =>
           last_chunk[j] = PaddedByte(start, fed, BLOCK * Len(hcomps) + j)

ShaInv ==
  /\ ShaTypeOK /\ BufferFits
  /\ Counted /\ Compressed /\ Waiting
  /\ PaddedToLength /\ DigestExact

\* The functions, called by anyone who hashes one message after another, from
\* any address and in pieces of any size.
AnyCall ==
  \/ \E a \in Nat : ComputeDataInit(a)
  \/ \E n \in Nat : Update(start + fed, n)
  \/ FinalizeMark

AnyStep == Work \/ AnyCall

-----------------------------------------------------------------------------
(* Arithmetic of blocks.                                                   *)

LEMMA BlockPositive == BLOCK \in Nat \ {0} /\ LEN \in Nat /\ LEN < BLOCK
  BY Sha256Assumption

LEMMA OneMore == \A n \in Nat : BLOCK * (n + 1) = BLOCK * n + BLOCK
  BY BlockPositive

\* Block b of n ends where they all end, or before.
LEMMA BlockInside ==
  ASSUME NEW n \in Nat, NEW b \in 1 .. n
  PROVE  /\ BLOCK * (b - 1) \in Nat
         /\ BLOCK * (b - 1) + BLOCK <= BLOCK * n
<1>1. BLOCK * (b - 1) + BLOCK = BLOCK * b
  BY BlockPositive
<1>2. BLOCK * b <= BLOCK * n
  BY BlockPositive
<1>3. BLOCK * (b - 1) \in Nat
  BY BlockPositive
<1>. QED BY <1>1, <1>2, <1>3, BlockPositive

\* How many blocks a message of n whole blocks and c bytes is padded to.
LEMMA BlocksOf ==
  ASSUME NEW n \in Nat, NEW c \in 0 .. BLOCK - 1
  PROVE  Blocks(BLOCK * n + c) =
           IF c + 1 > BLOCK - LEN THEN n + 2 ELSE n + 1
<1>1. ASSUME NEW q \in Nat, NEW r \in 0 .. BLOCK - 1
      PROVE  (BLOCK * q + r) \div BLOCK = q
  BY BlockPositive
<1>2. CASE c + 1 > BLOCK - LEN
  <2>1. c + LEN - BLOCK \in 0 .. BLOCK - 1
    BY <1>2, BlockPositive
  <2>2. (BLOCK * (n + 1) + (c + LEN - BLOCK)) \div BLOCK = n + 1
    BY <1>1, <2>1
  <2>3. BLOCK * n \in Nat /\ BLOCK * (n + 1) = BLOCK * n + BLOCK
    BY BlockPositive, OneMore
  <2>4. BLOCK * n + c + LEN = BLOCK * (n + 1) + (c + LEN - BLOCK)
    BY <2>3, BlockPositive
  <2>. QED BY <1>2, <2>2, <2>4 DEF Blocks
<1>3. CASE ~(c + 1 > BLOCK - LEN)
  <2>1. c + LEN \in 0 .. BLOCK - 1
    BY <1>3, BlockPositive
  <2>2. (BLOCK * n + (c + LEN)) \div BLOCK = n
    BY <1>1, <2>1
  <2>3. BLOCK * n + c + LEN = BLOCK * n + (c + LEN)
    BY BlockPositive
  <2>. QED BY <1>3, <2>2, <2>3 DEF Blocks
<1>. QED BY <1>2, <1>3

\* A sequence with one element more.
LEMMA AppendAt ==
  ASSUME NEW S, NEW s \in Seq(S), NEW e \in S
  PROVE  /\ Append(s, e) \in Seq(S)
         /\ Len(Append(s, e)) = Len(s) + 1
         /\ \A b \in 1 .. Len(s) : Append(s, e)[b] = s[b]
         /\ Append(s, e)[Len(s) + 1] = e
  OBVIOUS

-----------------------------------------------------------------------------
(* Types and sizes.                                                        *)

LEMMA Bytes ==
  /\ \A a \in Nat : Data(a) \in Byte
  /\ \A v \in Nat : Pad(v) \in Byte
  /\ Stack \in Byte
  BY DEF Byte, Data, Pad, Stack

\* Every block that the functions build has bytes at every index.
LEMMA BlocksBuilt ==
  ASSUME ShaTypeOK
  PROVE  /\ [j \in Index |-> Data(ptr + j)] \in Chunk
         /\ [j \in Index |-> IF j < chunk_size THEN last_chunk[j]
                             ELSE Data(ptr + j - chunk_size)] \in Chunk
         /\ Kept \in Chunk /\ Marked \in Chunk /\ Zeros \in Chunk
         /\ [j \in Index |->
               IF j >= BLOCK - LEN
               THEN Pad(LengthByte(8 * data_size, BLOCK - 1 - j))
               ELSE last_chunk[j]] \in Chunk
<1>1. /\ ptr \in Nat /\ size \in Nat /\ data_size \in Nat
      /\ chunk_size \in Nat
      /\ last_chunk \in [Index -> Byte]
  BY BlockPositive DEF ShaTypeOK, Chunk
<1>2. \A j \in Index : j \in Nat /\ BLOCK - 1 - j \in Nat
  BY BlockPositive DEF Index
<1>3. \A j \in Index : Data(ptr + j) \in Byte
  BY <1>1, <1>2, Bytes
<1>4. \A j \in Index : chunk_size <= j => Data(ptr + j - chunk_size) \in Byte
  <2> SUFFICES ASSUME NEW j \in Index, chunk_size <= j
               PROVE  ptr + j - chunk_size \in Nat
    BY Bytes
  <2>. QED BY <1>1, <1>2
<1>5. \A j \in Index : Pad(LengthByte(8 * data_size, BLOCK - 1 - j)) \in Byte
  <2> SUFFICES ASSUME NEW j \in Index
               PROVE  LengthByte(8 * data_size, BLOCK - 1 - j) \in Nat
    BY Bytes
  <2>1. 256 ^ (BLOCK - 1 - j) \in Int /\ 8 * data_size \in Nat
    BY <1>1, <1>2
  <2>2. ASSUME NEW b \in Nat, NEW x \in Int
        PROVE  (b \div x) % 256 \in Nat
    OBVIOUS
  <2>3. ((8 * data_size) \div 256 ^ (BLOCK - 1 - j)) % 256 \in Nat
    BY <2>1, <2>2
  <2>. QED BY <2>3 DEF LengthByte
<1>6. Pad(128) \in Byte /\ Pad(0) \in Byte
  BY Bytes
<1>7. \A j \in Index : ~(j < chunk_size) => chunk_size <= j
  BY <1>1, <1>2
<1>. QED BY <1>1, <1>3, <1>4, <1>5, <1>6, <1>7 DEF Chunk, Kept, Marked, Zeros

LEMMA TypeStep ==
  ASSUME ShaTypeOK, BufferFits, [AnyStep]_shaVars
  PROVE  ShaTypeOK' /\ BufferFits'
<1> USE BlockPositive
<1>1. CASE FillChunk
  <2>1. hcomps' \in Seq(Chunk)
    BY <1>1, BlocksBuilt, AppendAt
    DEF FillChunk, sha256_calculate_chunk, ShaTypeOK
  <2>. QED BY <1>1, <2>1 DEF FillChunk, message, ShaTypeOK, BufferFits
<1>2. CASE WholeChunk
  <2>1. hcomps' \in Seq(Chunk)
    BY <1>2, BlocksBuilt, AppendAt
    DEF WholeChunk, sha256_calculate_chunk, ShaTypeOK
  <2>. QED BY <1>2, <2>1 DEF WholeChunk, message, ShaTypeOK, BufferFits
<1>3. CASE KeepTail
  BY <1>3, BlocksBuilt DEF KeepTail, message, ShaTypeOK, BufferFits
<1>4. CASE FinalizeMark
  <2>1. hcomps' \in Seq(Chunk) /\ last_chunk' \in Chunk
    <3>1. CASE chunk_size + 1 > BLOCK - LEN
      <4>1. hcomps' = Append(hcomps, Marked) /\ last_chunk' = Zeros
        BY <1>4, <3>1 DEF FinalizeMark, sha256_calculate_chunk
      <4>2. hcomps \in Seq(Chunk)
        BY DEF ShaTypeOK
      <4>. QED BY <4>1, <4>2, BlocksBuilt, AppendAt
    <3>2. CASE ~(chunk_size + 1 > BLOCK - LEN)
      BY <1>4, <3>2, BlocksBuilt DEF FinalizeMark, ShaTypeOK
    <3>. QED BY <3>1, <3>2
  <2>. QED BY <1>4, <2>1 DEF FinalizeMark, message, ShaTypeOK, BufferFits
<1>5. CASE FinalizeLength
  <2>1. last_chunk' \in Chunk
    BY <1>5, BlocksBuilt DEF FinalizeLength
  <2>2. hcomps' \in Seq(Chunk)
    BY <1>5, <2>1, AppendAt
    DEF FinalizeLength, sha256_calculate_chunk, ShaTypeOK
  <2>. QED BY <1>5, <2>1, <2>2
           DEF FinalizeLength, message, ShaTypeOK, BufferFits
<1>6. CASE Output
  BY <1>6 DEF Output, cdata, message, ShaTypeOK, BufferFits
<1>7. ASSUME NEW a \in Nat, ComputeDataInit(a)
      PROVE  ShaTypeOK' /\ BufferFits'
  BY <1>7 DEF ComputeDataInit, ShaTypeOK, BufferFits
<1>8. ASSUME NEW n \in Nat, Update(start + fed, n)
      PROVE  ShaTypeOK' /\ BufferFits'
  BY <1>8 DEF Update, ShaTypeOK, BufferFits
<1>9. CASE UNCHANGED shaVars
  BY <1>9 DEF shaVars, cdata, message, ShaTypeOK, BufferFits
<1>. QED
  BY <1>1, <1>2, <1>3, <1>4, <1>5, <1>6, <1>7, <1>8, <1>9
  DEF AnyStep, Work, AnyCall

-----------------------------------------------------------------------------
(* The bytes of the message.                                               *)

\* What Counted, Compressed and Waiting say while sha256_update runs.
LEMMA FeedStep ==
  ASSUME ShaTypeOK, BufferFits, Counted, Compressed, Waiting,
         [AnyStep]_shaVars
  PROVE  Counted' /\ Compressed' /\ Waiting'
<1> USE BlockPositive DEF ShaTypeOK, message
<1> DEFINE n == Len(hcomps)
<1>1. /\ n \in Nat /\ BLOCK * n \in Nat
      /\ BLOCK * (n + 1) = BLOCK * n + BLOCK
  BY OneMore
\* A block appended to those before it.
<1>2. ASSUME NEW e \in Chunk, hcomps' = Append(hcomps, e), start' = start,
             Feeding,
             \A j \in Index : e[j] = Data(start + BLOCK * n + j)
      PROVE  /\ Len(hcomps') = n + 1
             /\ \A b \in 1 .. Len(hcomps'), j \in Index :
                  hcomps'[b][j] = Data(start' + BLOCK * (b - 1) + j)
  <2>1. /\ Len(hcomps') = n + 1
        /\ \A b \in 1 .. n : hcomps'[b] = hcomps[b]
        /\ hcomps'[n + 1] = e
    BY <1>2, AppendAt
  <2>2. \A b \in 1 .. n + 1 : b \in 1 .. n \/ (b = n + 1 /\ b - 1 = n)
    BY <1>1
  <2>. QED BY <1>2, <2>1, <2>2 DEF Compressed
<1>3. CASE FillChunk
  <2> DEFINE e == [j \in Index |-> IF j < chunk_size THEN last_chunk[j]
                                  ELSE Data(ptr + j - chunk_size)]
  <2>1. /\ hcomps' = Append(hcomps, e) /\ e \in Chunk
        /\ start' = start /\ Feeding
    BY <1>3, BlocksBuilt DEF FillChunk, sha256_calculate_chunk, Feeding
  <2>2. ptr = start + BLOCK * n + chunk_size
    BY <1>3 DEF FillChunk, Counted
  <2>3. \A j \in Index : e[j] = Data(start + BLOCK * n + j)
    <3> SUFFICES ASSUME NEW j \in Index
                 PROVE  e[j] = Data(start + BLOCK * n + j)
      OBVIOUS
    <3>1. j \in Nat
      BY DEF Index
    <3>2. CASE j < chunk_size
      <4>1. j \in 0 .. chunk_size - 1
        BY <3>1, <3>2
      <4>. QED BY <2>1, <3>2, <4>1 DEF Waiting
    <3>3. CASE ~(j < chunk_size)
      <4>1. ptr + j - chunk_size = start + BLOCK * n + j
        BY <1>1, <2>2, <3>1
      <4>. QED BY <3>3, <4>1
    <3>. QED BY <3>2, <3>3
  <2>4. /\ Len(hcomps') = n + 1
        /\ \A b \in 1 .. Len(hcomps'), j \in Index :
             hcomps'[b][j] = Data(start' + BLOCK * (b - 1) + j)
    BY <1>2, <2>1, <2>3
  <2>5. Compressed'
    BY <2>4 DEF Compressed
  <2>6. Waiting'
    BY <1>3 DEF FillChunk, Waiting
  <2>7. Counted'
    BY <1>1, <1>3, <2>2, <2>4 DEF FillChunk, Counted, Feeding
  <2>. QED BY <2>5, <2>6, <2>7
<1>4. CASE WholeChunk
  <2> DEFINE e == [j \in Index |-> Data(ptr + j)]
  <2>1. /\ hcomps' = Append(hcomps, e) /\ e \in Chunk
        /\ start' = start /\ Feeding
    BY <1>4, BlocksBuilt DEF WholeChunk, sha256_calculate_chunk, Feeding
  <2>2. chunk_size = 0 /\ ptr = start + BLOCK * n
    BY <1>1, <1>4 DEF WholeChunk, Counted, BufferFits
  <2>3. \A j \in Index : e[j] = Data(start + BLOCK * n + j)
    BY <2>2
  <2>4. /\ Len(hcomps') = n + 1
        /\ \A b \in 1 .. Len(hcomps'), j \in Index :
             hcomps'[b][j] = Data(start' + BLOCK * (b - 1) + j)
    BY <1>2, <2>1, <2>3
  <2>5. Compressed'
    BY <2>4 DEF Compressed
  <2>6. Waiting'
    BY <1>4, <2>2 DEF WholeChunk, Waiting
  <2>7. Counted'
    BY <1>1, <1>4, <2>2, <2>4 DEF WholeChunk, Counted, Feeding
  <2>. QED BY <2>5, <2>6, <2>7
<1>5. CASE KeepTail
  <2>1. Counted'
    BY <1>1, <1>5 DEF KeepTail, Counted, Feeding
  <2>2. Compressed'
    BY <1>5 DEF KeepTail, Compressed, Feeding
  <2>3. ASSUME NEW j \in 0 .. chunk_size' - 1
        PROVE  last_chunk'[j] = Data(start + BLOCK * n + j)
    <3>1. j \in Nat /\ j \in Index /\ j < chunk_size + size
      BY <1>5, <2>3 DEF KeepTail, BufferFits, Index
    <3>2. last_chunk'[j] = IF chunk_size <= j /\ j < chunk_size + size
                           THEN Data(ptr + j - chunk_size) ELSE last_chunk[j]
      BY <1>5, <3>1 DEF KeepTail, Kept
    <3>3. CASE chunk_size <= j
      <4>1. ptr + j - chunk_size = start + BLOCK * n + j
        BY <1>1, <1>5, <3>1 DEF KeepTail, Counted
      <4>. QED BY <3>1, <3>2, <3>3, <4>1
    <3>4. CASE ~(chunk_size <= j)
      <4>1. j \in 0 .. chunk_size - 1
        BY <3>1, <3>4
      <4>. QED BY <1>5, <3>2, <3>4, <4>1 DEF KeepTail, Waiting, Feeding
    <3>. QED BY <3>3, <3>4
  <2>4. Waiting'
    BY <1>5, <2>3 DEF KeepTail, Waiting
  <2>. QED BY <2>1, <2>2, <2>4
<1>6. CASE FinalizeMark \/ FinalizeLength \/ Output
  BY <1>6 DEF FinalizeMark, FinalizeLength, Output, Counted, Compressed,
              Waiting, Feeding
<1>7. ASSUME NEW a \in Nat, ComputeDataInit(a)
      PROVE  Counted' /\ Compressed' /\ Waiting'
  BY <1>7 DEF ComputeDataInit, Counted, Compressed, Waiting, Feeding
<1>8. ASSUME NEW k \in Nat, Update(start + fed, k)
      PROVE  Counted' /\ Compressed' /\ Waiting'
  <2>1. Counted'
    BY <1>1, <1>8 DEF Update, Counted, Feeding
  <2>2. Compressed' /\ Waiting'
    BY <1>8 DEF Update, Compressed, Waiting, Feeding
  <2>. QED BY <2>1, <2>2
<1>9. CASE UNCHANGED shaVars
  BY <1>9 DEF shaVars, cdata, Counted, Compressed, Waiting, Feeding
<1>. QED
  BY <1>3, <1>4, <1>5, <1>6, <1>7, <1>8, <1>9 DEF AnyStep, Work, AnyCall

-----------------------------------------------------------------------------
(* The end of the message.                                                 *)

\* What is in last_chunk behind the mark belongs to block n + 1.
LEMMA MarkStep ==
  ASSUME ShaTypeOK, BufferFits, Counted, Compressed, Waiting, FinalizeMark
  PROVE  PaddedToLength'
<1> USE BlockPositive
<1> DEFINE n == Len(hcomps)
           c == chunk_size
<1>1. /\ n \in Nat /\ BLOCK * n \in Nat /\ start \in Nat /\ fed \in Nat
      /\ BLOCK * (n + 1) = BLOCK * n + BLOCK
  BY OneMore DEF ShaTypeOK
<1>2. /\ c \in 0 .. BLOCK - 1 /\ fed = BLOCK * n + c /\ data_size = fed
  BY DEF FinalizeMark, ShaTypeOK, BufferFits, Counted, Feeding
<1>3. /\ start' = start /\ fed' = fed /\ data_size' = data_size
      /\ step' = "length"
  BY DEF FinalizeMark, message
<1>4. Blocks(fed) = IF c + 1 > BLOCK - LEN THEN n + 2 ELSE n + 1
  BY <1>1, <1>2, BlocksOf
<1>5. \A j \in Index : j \in Nat /\ j < BLOCK
  BY DEF Index
\* The blocks compressed before.
<1>6. ASSUME NEW b \in 1 .. n, NEW j \in Index
      PROVE  hcomps[b][j] = PaddedByte(start, fed, BLOCK * (b - 1) + j)
  <2>1. /\ BLOCK * (b - 1) \in Nat
        /\ BLOCK * (b - 1) + BLOCK <= BLOCK * n
    BY <1>1, BlockInside
  <2>2. BLOCK * (b - 1) + j < fed
    BY <1>1, <1>2, <1>5, <2>1
  <2>3. hcomps[b][j] = Data(start + BLOCK * (b - 1) + j)
    BY DEF FinalizeMark, Compressed, Feeding
  <2>4. start + (BLOCK * (b - 1) + j) = start + BLOCK * (b - 1) + j
    BY <1>1, <1>5, <2>1
  <2>. QED BY <2>2, <2>3, <2>4 DEF PaddedByte
\* The marked block up to where a length may begin.
<1>7. ASSUME NEW j \in Index,
             BLOCK * n + j < BLOCK * Blocks(fed) - LEN
      PROVE  Marked[j] = PaddedByte(start, fed, BLOCK * n + j)
  <2>1. Marked[j] = IF j < c THEN last_chunk[j]
                    ELSE IF j = c THEN Pad(128) ELSE Pad(0)
    BY DEF Marked
  <2>2. CASE j < c
    <3>1. j \in 0 .. c - 1
      BY <1>2, <1>5, <2>2
    <3>2. last_chunk[j] = Data(start + BLOCK * n + j)
      BY <3>1 DEF FinalizeMark, Waiting, Feeding
    <3>3. /\ BLOCK * n + j < fed
          /\ start + (BLOCK * n + j) = start + BLOCK * n + j
      BY <1>1, <1>2, <1>5, <2>2
    <3>. QED BY <2>1, <2>2, <3>2, <3>3 DEF PaddedByte
  <2>3. CASE j = c
    <3>1. BLOCK * n + j = fed /\ ~(fed < fed)
      BY <1>1, <1>2, <2>3
    <3>2. ~(j < c)
      BY <1>2, <2>3
    <3>. QED BY <2>1, <2>3, <3>1, <3>2 DEF PaddedByte
  <2>4. CASE j > c
    <3>1. ~(BLOCK * n + j < fed) /\ BLOCK * n + j # fed
      BY <1>1, <1>2, <1>5, <2>4
    <3>2. ~(j < c) /\ j # c
      BY <1>2, <1>5, <2>4
    <3>. QED BY <1>7, <2>1, <3>1, <3>2 DEF PaddedByte
  <2>. QED BY <1>2, <1>5, <2>2, <2>3, <2>4
<1>8. CASE c + 1 > BLOCK - LEN
  <2>1. hcomps' = Append(hcomps, Marked) /\ last_chunk' = Zeros
    BY <1>8 DEF FinalizeMark, sha256_calculate_chunk
  <2>2. hcomps \in Seq(Chunk) /\ Marked \in Chunk
    BY BlocksBuilt DEF ShaTypeOK
  <2>3. /\ Len(hcomps') = n + 1
        /\ \A b \in 1 .. n : hcomps'[b] = hcomps[b]
        /\ hcomps'[n + 1] = Marked
    BY <2>1, <2>2, AppendAt
  <2>4. /\ Blocks(fed) = n + 2
        /\ BLOCK * Blocks(fed) = BLOCK * n + BLOCK + BLOCK
    <3>1. Blocks(fed) = n + 2 /\ n + 2 = (n + 1) + 1 /\ n + 1 \in Nat
      BY <1>1, <1>4, <1>8
    <3>2. BLOCK * ((n + 1) + 1) = BLOCK * (n + 1) + BLOCK
      BY <3>1, OneMore
    <3>. QED BY <1>1, <3>1, <3>2
  <2>5. ASSUME NEW b \in 1 .. n + 1, NEW j \in Index
        PROVE  hcomps'[b][j] = PaddedByte(start, fed, BLOCK * (b - 1) + j)
    <3>1. CASE b \in 1 .. n
      BY <1>6, <2>3, <3>1
    <3>2. CASE b = n + 1
      <4>1. b - 1 = n /\ BLOCK * n + j < BLOCK * Blocks(fed) - LEN
        BY <1>1, <1>5, <2>4, <3>2
      <4>. QED BY <1>7, <2>3, <3>2, <4>1
    <3>. QED BY <1>1, <3>1, <3>2
  <2>6. ASSUME NEW j \in Index, j < BLOCK - LEN
        PROVE  last_chunk'[j] = PaddedByte(start, fed, BLOCK * (n + 1) + j)
    <3>1. last_chunk'[j] = Pad(0)
      BY <2>1 DEF Zeros
    <3>2. /\ ~(BLOCK * (n + 1) + j < fed) /\ BLOCK * (n + 1) + j # fed
          /\ BLOCK * (n + 1) + j < BLOCK * Blocks(fed) - LEN
      BY <1>1, <1>2, <1>5, <2>4, <2>6
    <3>. QED BY <3>1, <3>2 DEF PaddedByte
  <2>7. BLOCK * (n + 1) + BLOCK - LEN > fed
    BY <1>1, <1>2
  <2>8. n + 1 + 1 = Blocks(fed)
    BY <1>1, <2>4
  <2>. QED BY <1>2, <1>3, <2>3, <2>5, <2>6, <2>7, <2>8 DEF PaddedToLength
<1>9. CASE ~(c + 1 > BLOCK - LEN)
  <2>1. hcomps' = hcomps /\ last_chunk' = Marked
    BY <1>9 DEF FinalizeMark
  <2>2. Blocks(fed) = n + 1 /\ BLOCK * Blocks(fed) = BLOCK * n + BLOCK
    BY <1>1, <1>4, <1>9
  <2>3. ASSUME NEW j \in Index, j < BLOCK - LEN
        PROVE  last_chunk'[j] = PaddedByte(start, fed, BLOCK * n + j)
    <3>1. BLOCK * n + j < BLOCK * Blocks(fed) - LEN
      BY <1>1, <1>5, <2>2, <2>3
    <3>. QED BY <1>7, <2>1, <3>1
  <2>4. BLOCK * n + BLOCK - LEN > fed
    BY <1>1, <1>2, <1>9
  <2>. QED BY <1>2, <1>3, <1>6, <2>1, <2>2, <2>3, <2>4 DEF PaddedToLength
<1>. QED BY <1>8, <1>9

\* The length completes the last block, and the padded message with it.
LEMMA LengthStep ==
  ASSUME ShaTypeOK, PaddedToLength, FinalizeLength
  PROVE  DigestExact'
<1> USE BlockPositive
<1> DEFINE n == Len(hcomps)
<1>1. /\ n \in Nat /\ BLOCK * n \in Nat /\ start \in Nat /\ fed \in Nat
      /\ BLOCK * (n + 1) = BLOCK * n + BLOCK
  BY OneMore DEF ShaTypeOK
<1>2. /\ data_size = fed /\ Blocks(fed) = n + 1
      /\ BLOCK * n + BLOCK - LEN > fed
      /\ \A b \in 1 .. n, j \in Index :
           hcomps[b][j] = PaddedByte(start, fed, BLOCK * (b - 1) + j)
      /\ \A j \in Index :
           j < BLOCK - LEN =>
             last_chunk[j] = PaddedByte(start, fed, BLOCK * n + j)
  BY DEF FinalizeLength, PaddedToLength
<1>3. start' = start /\ fed' = fed
  BY DEF FinalizeLength, message
<1>4. last_chunk' \in Chunk /\ hcomps \in Seq(Chunk)
  BY BlocksBuilt DEF FinalizeLength, ShaTypeOK
<1>5. hcomps' = Append(hcomps, last_chunk')
  BY DEF FinalizeLength, sha256_calculate_chunk
<1>6. /\ hcomps' \in Seq(Chunk) /\ Len(hcomps') = n + 1
      /\ \A b \in 1 .. n : hcomps'[b] = hcomps[b]
      /\ hcomps'[n + 1] = last_chunk'
  BY <1>4, <1>5, AppendAt
<1>7. ASSUME NEW j \in Index
      PROVE  last_chunk'[j] = PaddedByte(start, fed, BLOCK * n + j)
  <2>1. j \in Nat /\ j < BLOCK
    BY DEF Index
  <2>2. last_chunk'[j] =
          IF j >= BLOCK - LEN
          THEN Pad(LengthByte(8 * data_size, BLOCK - 1 - j))
          ELSE last_chunk[j]
    BY DEF FinalizeLength
  <2>3. CASE j < BLOCK - LEN
    <3>1. ~(j >= BLOCK - LEN)
      BY <2>1, <2>3
    <3>. QED BY <1>2, <2>2, <2>3, <3>1
  <2>4. CASE ~(j < BLOCK - LEN)
    <3>1. j >= BLOCK - LEN
      BY <2>1, <2>4
    <3>2. /\ ~(BLOCK * n + j < fed) /\ BLOCK * n + j # fed
          /\ ~(BLOCK * n + j < BLOCK * Blocks(fed) - LEN)
          /\ BLOCK * Blocks(fed) - 1 - (BLOCK * n + j) = BLOCK - 1 - j
      BY <1>1, <1>2, <2>1, <2>4
    <3>. QED BY <1>2, <2>2, <3>1, <3>2 DEF PaddedByte
  <2>. QED BY <2>3, <2>4
<1>8. ASSUME NEW b \in 1 .. n + 1
      PROVE  hcomps'[b] =
               [j \in Index |-> PaddedByte(start, fed, BLOCK * (b - 1) + j)]
  <2>1. hcomps'[b] \in [Index -> Byte]
    BY <1>6 DEF Chunk
  <2>2. \A j \in Index :
          hcomps'[b][j] = PaddedByte(start, fed, BLOCK * (b - 1) + j)
    <3>1. CASE b \in 1 .. n
      BY <1>2, <1>6, <3>1
    <3>2. CASE b = n + 1
      <4>1. b - 1 = n
        BY <1>1, <3>2
      <4>. QED BY <1>6, <1>7, <3>2, <4>1
    <3>. QED BY <1>1, <3>1, <3>2
  <2>. QED BY <2>1, <2>2
<1>9. hcomps' = [b \in 1 .. n + 1 |->
                   [j \in Index |->
                      PaddedByte(start, fed, BLOCK * (b - 1) + j)]]
  <2>1. hcomps' = [b \in 1 .. Len(hcomps') |-> hcomps'[b]]
    BY <1>6
  <2>. QED BY <1>6, <1>8, <2>1
<1>. QED BY <1>2, <1>3, <1>9 DEF DigestExact, Padded

LEMMA PadStep ==
  ASSUME ShaInv, [AnyStep]_shaVars
  PROVE  PaddedToLength' /\ DigestExact'
<1>1. CASE FinalizeMark
  <2>1. PaddedToLength'
    BY <1>1, MarkStep DEF ShaInv
  <2>. QED BY <1>1, <2>1 DEF FinalizeMark, DigestExact
<1>2. CASE FinalizeLength
  <2>1. DigestExact'
    BY <1>2, LengthStep DEF ShaInv
  <2>. QED BY <1>2, <2>1 DEF FinalizeLength, PaddedToLength
<1>3. CASE FillChunk \/ WholeChunk \/ KeepTail \/ Output
  BY <1>3 DEF FillChunk, WholeChunk, KeepTail, Output, PaddedToLength,
              DigestExact
<1>4. ASSUME NEW a \in Nat, ComputeDataInit(a)
      PROVE  PaddedToLength' /\ DigestExact'
  BY <1>4 DEF ComputeDataInit, PaddedToLength, DigestExact
<1>5. ASSUME NEW k \in Nat, Update(start + fed, k)
      PROVE  PaddedToLength' /\ DigestExact'
  BY <1>5 DEF Update, PaddedToLength, DigestExact
<1>6. CASE UNCHANGED shaVars
  BY <1>6 DEF ShaInv, shaVars, cdata, message, PaddedToLength, DigestExact
<1>. QED
  BY <1>1, <1>2, <1>3, <1>4, <1>5, <1>6 DEF AnyStep, Work, AnyCall

-----------------------------------------------------------------------------
(* Theorems.                                                               *)

LEMMA ShaInitInv == ShaInit => ShaInv
<1> SUFFICES ASSUME ShaInit PROVE ShaInv
  OBVIOUS
<1>1. ShaTypeOK
  BY BlockPositive, Bytes DEF ShaInit, ShaTypeOK, Chunk
<1>. QED BY <1>1 DEF ShaInit, ShaInv, BufferFits, Counted, Compressed,
                     Waiting, PaddedToLength, DigestExact, Feeding

LEMMA ShaInvStep == ShaInv /\ [AnyStep]_shaVars => ShaInv'
  BY TypeStep, FeedStep, PadStep DEF ShaInv

\* What sha256_update and sha256_finalize keep from one step to the next:
\* where every byte that was fed is, and what the blocks hold.
THEOREM ShaInvAlways == ShaSpec => []ShaInv
<1>1. ShaTypeOK /\ [ShaNext]_shaVars => [AnyStep]_shaVars
  <2> SUFFICES ASSUME ShaTypeOK, ShaNext PROVE AnyStep
    OBVIOUS
  <2>1. ASSUME NEW a \in Starts, ComputeDataInit(a) PROVE AnyStep
    BY <2>1, Sha256Assumption DEF AnyStep, AnyCall
  <2>2. ASSUME NEW n \in 0 .. MaxSize - fed, Update(start + fed, n)
        PROVE  AnyStep
    <3>1. n \in Nat
      BY Sha256Assumption DEF ShaTypeOK
    <3>. QED BY <2>2, <3>1 DEF AnyStep, AnyCall
  <2>. QED BY <2>1, <2>2 DEF ShaNext, Call, AnyStep, AnyCall
<1>2. ShaInv /\ [ShaNext]_shaVars => ShaInv'
  BY <1>1, ShaInvStep DEF ShaInv
<1>. QED BY <1>2, ShaInitInv, PTL DEF ShaSpec

\* Sizes stay natural numbers and buffers keep their length, for every BLOCK
\* and LEN, every message and every cut of it.
THEOREM ShaTypeCorrect == ShaSpec => []ShaTypeOK
<1>1. ShaInv => ShaTypeOK
  BY DEF ShaInv
<1>. QED BY <1>1, ShaInvAlways, PTL

\* No call of sha256_update or sha256_finalize writes past tmp_chunk or
\* last_chunk.
THEOREM BuffersNeverOverflow == ShaSpec => []BufferFits
<1>1. ShaInv => BufferFits
  BY DEF ShaInv
<1>. QED BY <1>1, ShaInvAlways, PTL

\* Between two calls of sha256_update every byte of the message is compressed
\* or waits, once and in its place.
THEOREM StreamsAreExact == ShaSpec => []StreamExact
<1>1. ShaInv => StreamExact
  BY DEF ShaInv, Counted, Compressed, Waiting, Feeding, StreamExact
<1>. QED BY <1>1, ShaInvAlways, PTL

\* sha256_finalize leaves the blocks of the message padded as FIPS 180-4 says,
\* for every length and every cut.
THEOREM DigestsAreExact == ShaSpec => []DigestExact
<1>1. ShaInv => DigestExact
  BY DEF ShaInv
<1>. QED BY <1>1, ShaInvAlways, PTL
=============================================================================
