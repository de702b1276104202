---------------------------- MODULE MCHashChunks ----------------------------
(* Values for TLC: every pair of chunks with offsets and sizes from small  *)
(* sets, overlapping, out of order, out of the file and with sums that     *)
(* wrap; every way four chunks of one to three bytes follow one another;   *)
(* and two chunks that follow one another past the 32 bits.  MCFiles has   *)
(* the sizes at which such chunks end.                                     *)
EXTENDS HashChunks

MCChunk == [offset : {0, 2, 3, 5, 13, 15}, size : {0, 1, 2, 3, 5, 6}]

Follow(sizes) ==
  LET before[k \in 1 .. 4] == IF k = 1 THEN 0 ELSE before[k - 1] + sizes[k - 1]
  IN [k \in 1 .. 4 |-> [offset |-> before[k], size |-> sizes[k]]]

Wrapping == <<[offset |-> 0, size |-> 15], [offset |-> 15, size |-> 6]>>

MCTables ==
  [1 .. 2 -> MCChunk] \cup {Follow(sizes) : sizes \in [1 .. 4 -> 1 .. 3]}
    \cup {Wrapping}

MCFiles == {NoFile} \cup 0 .. 9 \cup {17}
=============================================================================
