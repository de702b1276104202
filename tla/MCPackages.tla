----------------------------- MODULE MCPackages -----------------------------
(* Two packages of two sizes that name one data file; of the queries one is *)
(* a prefix of both idents and one of neither.                              *)
EXTENDS Packages

CONSTANTS b1, b2, f, x, y

MCIdent(b) == IF b = b1 THEN <<1, 1>> ELSE <<1, 2>>

MCDataOf(b) == IF b = b1 THEN <<x>> ELSE <<x, y>>

MCFileOf(b) == f

MCQuery == {<<1>>, <<1, 2>>, <<2>>}

MCContents == {<<>>, <<x>>, <<x, y>>}
=============================================================================
