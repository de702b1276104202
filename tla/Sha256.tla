------------------------------- MODULE Sha256 -------------------------------
(***************************************************************************)
(* The streaming hash of crypt/sha256.c: a caller initialises a            *)
(* sha256_compute_data, feeds it a message in pieces, finalises it and     *)
(* takes the digest.                                                       *)
(*                                                                         *)
(* What can go wrong is which bytes are compressed, in which blocks; the   *)
(* rounds are symbolic: hcomps is the sequence of blocks folded into it,   *)
(* and two digests are equal when these are.  The code looks at no byte    *)
(* of a message, so a byte is the address it was read from.  The constants *)
(* of the code are BLOCK = 64 and LEN = 8, and 56 is BLOCK - LEN.  Both    *)
(* callers pass at most SHA256_BFLEN bytes at a time: size + chunk_size    *)
(* stays within 32 bits, and chunk_size within its 8.                      *)
(***************************************************************************)
EXTENDS Integers, Sequences

CONSTANTS
  BLOCK,   \* SHA256_CHUNK_SZ, the bytes of a block
  LEN,     \* the bytes of the length field at the end of the last block
  Starts,  \* the addresses at which messages start
  MaxSize  \* bound on the length of a message

ASSUME Sha256Assumption ==
  /\ BLOCK \in Nat /\ LEN \in Nat
  /\ LEN < BLOCK
  /\ Starts \subseteq Nat
  /\ MaxSize \in Nat

VARIABLES
  hcomps,      \* the blocks compressed so far
  data_size,   \* how many bytes were fed
  last_chunk,  \* the bytes that wait for a full block
  chunk_size,  \* how many of them there are
  ptr, size,   \* sha256_update: the input that is left
  step,        \* what the caller or the function does next
  hash,        \* the digest the caller takes
  start, fed   \* history: the message is the fed bytes from start on

cdata == <<hcomps, data_size, last_chunk, chunk_size>>
message == <<start, fed>>
shaVars == <<cdata, ptr, size, step, hash, message>>

Index == 0 .. BLOCK - 1

Data(a) == <<"data", a>>
Pad(v) == <<"pad", v>>
Stack == <<"stack", 0>>  \* a byte nobody has written

Byte == ({"data", "pad"} \X Nat) \cup {Stack}
Chunk == [Index -> Byte]

\* Byte k, from the low end, of a size in bits.
LengthByte(bits, k) == (bits \div (256 ^ k)) % 256

\* sha256_compute_data lives on the caller's stack.
ShaInit ==
  /\ hcomps = <<>> /\ data_size = 0 /\ chunk_size = 0
  /\ last_chunk = [j \in Index |-> Stack]
  /\ ptr = 0 /\ size = 0
  /\ step = "done"
  /\ hash = <<>>
  /\ start = 0 /\ fed = 0

-----------------------------------------------------------------------------

sha256_calculate_chunk(chunk) == hcomps' = Append(hcomps, chunk)

\* sha256_compute_data_init for the message at a; last_chunk keeps its bytes.
ComputeDataInit(a) ==
  /\ step = "done"
  /\ hcomps' = <<>>
  /\ data_size' = 0 /\ chunk_size' = 0
  /\ start' = a /\ fed' = 0
  /\ step' = "ready"
  /\ UNCHANGED <<last_chunk, ptr, size, hash>>

\* Faulty form of Update: input that just completes a block does not fill it.
UpdateFillsLate(bytes, n) ==
  /\ step = "ready"
  /\ data_size' = data_size + n
  /\ ptr' = bytes /\ size' = n
  /\ fed' = fed + n
  /\ step' = IF n + chunk_size > BLOCK THEN "fill" ELSE "blocks"
  /\ UNCHANGED <<hcomps, last_chunk, chunk_size, hash, start>>

\* sha256_update is called with n bytes at the address bytes.
Update(bytes, n) ==
  /\ step = "ready"
  /\ data_size' = data_size + n
  /\ ptr' = bytes /\ size' = n
  /\ fed' = fed + n
  /\ step' = IF n + chunk_size >= BLOCK THEN "fill" ELSE "blocks"
  /\ UNCHANGED <<hcomps, last_chunk, chunk_size, hash, start>>

\* Faulty forms of FillChunk: a whole block counts as taken from the input;
\* the bytes that waited are not taken along.
FillChunkBlockTaken ==
  /\ step = "fill"
  /\ sha256_calculate_chunk([j \in Index |->
       IF j < chunk_size THEN last_chunk[j] ELSE Data(ptr + j - chunk_size)])
  /\ ptr' = ptr + BLOCK
  /\ size' = size - BLOCK
  /\ chunk_size' = 0
  /\ step' = "blocks"
  /\ UNCHANGED <<data_size, last_chunk, hash, message>>

FillChunkAlone ==
  /\ step = "fill"
  /\ sha256_calculate_chunk([j \in Index |-> Data(ptr + j)])
  /\ ptr' = ptr + (BLOCK - chunk_size)
  /\ size' = size - (BLOCK - chunk_size)
  /\ chunk_size' = 0
  /\ step' = "blocks"
  /\ UNCHANGED <<data_size, last_chunk, hash, message>>

\* tmp_chunk: the bytes that waited, filled up from the input.
FillChunk ==
  /\ step = "fill"
  /\ sha256_calculate_chunk([j \in Index |->
       IF j < chunk_size THEN last_chunk[j] ELSE Data(ptr + j - chunk_size)])
  /\ ptr' = ptr + (BLOCK - chunk_size)
  /\ size' = size - (BLOCK - chunk_size)
  /\ chunk_size' = 0
  /\ step' = "blocks"
  /\ UNCHANGED <<data_size, last_chunk, hash, message>>

\* One turn of the while loop.
WholeChunk ==
  /\ step = "blocks"
  /\ size >= BLOCK
  /\ sha256_calculate_chunk([j \in Index |-> Data(ptr + j)])
  /\ ptr' = ptr + BLOCK /\ size' = size - BLOCK
  /\ UNCHANGED <<data_size, last_chunk, chunk_size, step, hash, message>>

Kept ==
  [j \in Index |-> IF chunk_size <= j /\ j < chunk_size + size
                   THEN Data(ptr + j - chunk_size) ELSE last_chunk[j]]

\* What is left waits in last_chunk; sha256_update returns.
KeepTail ==
  /\ step = "blocks"
  /\ size < BLOCK
  /\ last_chunk' = Kept
  /\ chunk_size' = chunk_size + size
  /\ step' = "ready"
  /\ UNCHANGED <<hcomps, data_size, ptr, size, hash, message>>

Zeros == [j \in Index |-> Pad(0)]

\* The end mark and zeros behind the bytes that wait.
Marked ==
  [j \in Index |-> IF j < chunk_size THEN last_chunk[j]
                   ELSE IF j = chunk_size THEN Pad(128) ELSE Pad(0)]

\* Faulty form of FinalizeMark: 56 bytes before the mark are taken to fit.
FinalizeMarkLate ==
  /\ step = "ready"
  /\ chunk_size' = chunk_size + 1
  /\ IF chunk_size > BLOCK - LEN
     THEN sha256_calculate_chunk(Marked) /\ last_chunk' = Zeros
     ELSE last_chunk' = Marked /\ UNCHANGED hcomps
  /\ step' = "length"
  /\ UNCHANGED <<data_size, ptr, size, hash, message>>

\* sha256_finalize up to the length: when the length does not fit behind the
\* mark, it goes to a block of its own.
FinalizeMark ==
  /\ step = "ready"
  /\ chunk_size' = chunk_size + 1
  /\ IF chunk_size + 1 > BLOCK - LEN
     THEN sha256_calculate_chunk(Marked) /\ last_chunk' = Zeros
     ELSE last_chunk' = Marked /\ UNCHANGED hcomps
  /\ step' = "length"
  /\ UNCHANGED <<data_size, ptr, size, hash, message>>

\* The length in bits, low byte last, and the last block.
FinalizeLength ==
  /\ step = "length"
  /\ last_chunk' = [j \in Index |->
       IF j >= BLOCK - LEN THEN Pad(LengthByte(8 * data_size, BLOCK - 1 - j))
       ELSE last_chunk[j]]
  /\ sha256_calculate_chunk(last_chunk')
  /\ step' = "output"
  /\ UNCHANGED <<data_size, chunk_size, ptr, size, hash, message>>

\* sha256_output_hex writes hcomps out in hexadecimal digits, one to one.
Output ==
  /\ step = "output"
  /\ hash' = hcomps
  /\ step' = "done"
  /\ UNCHANGED <<cdata, ptr, size, message>>

\* What the functions do once they are called.
Work ==
  FillChunk \/ WholeChunk \/ KeepTail \/ FinalizeLength \/ Output

\* A caller that hashes one message after the other, each in consecutive
\* pieces of any sizes.
Call ==
  \/ \E a \in Starts : a >= start + fed /\ ComputeDataInit(a)
  \/ \E n \in 0 .. MaxSize - fed : Update(start + fed, n)
  \/ FinalizeMark

ShaNext == Work \/ Call

ShaSpec == ShaInit /\ [][ShaNext]_shaVars

-----------------------------------------------------------------------------
(* Properties.                                                             *)

\* FIPS 180-4, 5.1.1: the message, a one bit, the fewest zero bits that fill
\* the last block up to the length field, and the length in bits.
Blocks(n) == (n + LEN) \div BLOCK + 1

PaddedByte(a, n, p) ==
  IF p < n THEN Data(a + p)
  ELSE IF p = n THEN Pad(128)
  ELSE IF p < BLOCK * Blocks(n) - LEN THEN Pad(0)
  ELSE Pad(LengthByte(8 * n, BLOCK * Blocks(n) - 1 - p))

Padded(a, n) ==
  [b \in 1 .. Blocks(n) |->
     [j \in Index |-> PaddedByte(a, n, BLOCK * (b - 1) + j)]]

\* Every variable keeps its type.
ShaTypeOK ==
  /\ hcomps \in Seq(Chunk)
  /\ data_size \in Nat /\ chunk_size \in 0 .. BLOCK
  /\ last_chunk \in Chunk
  /\ ptr \in Nat /\ size \in Nat
  /\ step \in {"ready", "fill", "blocks", "length", "output", "done"}
  /\ hash \in Seq(Chunk)
  /\ start \in Nat /\ fed \in Nat

\* sha256_update and sha256_finalize stay inside tmp_chunk and last_chunk,
\* whatever the sizes of the pieces: a full block never waits.
BufferFits ==
  /\ step = "ready" => chunk_size < BLOCK
  /\ step = "fill" => chunk_size < BLOCK /\ size + chunk_size >= BLOCK
  /\ step = "blocks" /\ size < BLOCK => chunk_size + size < BLOCK
  /\ step = "blocks" /\ size >= BLOCK => chunk_size = 0

\* Between two calls of sha256_update every byte that was fed has been
\* compressed or waits, once and in its place, however the message was cut.
StreamExact ==
  step = "ready" =>
    /\ data_size = fed
    /\ fed = BLOCK * Len(hcomps) + chunk_size
    /\ \A b \in 1 .. Len(hcomps), j \in Index :
         hcomps[b][j] = Data(start + BLOCK * (b - 1) + j)
    /\ \A j \in 0 .. chunk_size - 1 :
         last_chunk[j] = Data(start + BLOCK * Len(hcomps) + j)

\* The digest is that of the whole message, padded as the standard says, for
\* every length (also 55, 56, 63 and 64 bytes past a block) and for a buffer
\* that earlier messages or the stack have filled.
DigestExact == step = "output" => hcomps = Padded(start, fed)
=============================================================================
