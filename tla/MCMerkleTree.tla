---------------------------- MODULE MCMerkleTree ----------------------------
(* Values for TLC: two kinds of data are enough for chunks that are right, *)
(* wrong, and equal to one another.                                        *)
EXTENDS MerkleTree, TLC

Symmetry == Permutations(Block)
=============================================================================
