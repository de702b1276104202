-------------------------- MODULE MerkleTreeProofs --------------------------
(***************************************************************************)
(* The tree of initilise_tree and the queries of pkgmain for any number of *)
(* chunks: what -min_hashes and -chunk_check answer, and that no query     *)
(* writes past the entries it allocates.                                   *)
(*                                                                         *)
(* Rows and the division of chunks among nodes are first reduced to facts  *)
(* about a node and its two children; the rest is about trees alone.       *)
(***************************************************************************)
EXTENDS MerkleTree, TLAPS, FiniteSetTheorems, SequenceTheorems,
        WellFoundedInduction

-----------------------------------------------------------------------------
(* Natural numbers.                                                        *)

Less == {ss \in Nat \X Nat : ss[1] < ss[2]}

LEMMA Least ==
  ASSUME NEW T \in SUBSET Nat, T # {}
  PROVE  \E x \in T : \A y \in T : x <= y
<1>1. IsWellFoundedOn(Less, Nat)
  BY NatLessThanWellFounded DEF OpToRel, Less
<1>2. PICK x \in T : \A y \in T : <<y, x>> \notin Less
  BY <1>1, WFMin
<1>3. \A y \in T : ~(y < x)
  BY <1>2 DEF Less
<1>. QED BY <1>3

\* Induction over a set of natural numbers.
LEMMA Induct ==
  ASSUME NEW T, 0 \in T, \A n \in Nat : n \in T => n + 1 \in T
  PROVE  Nat \subseteq T
<1> SUFFICES ASSUME Nat \ T # {} PROVE FALSE
  OBVIOUS
<1>1. PICK x \in Nat \ T : \A y \in Nat \ T : x <= y
  BY Least
<1>2. x - 1 \in Nat
  BY <1>1
<1>3. x - 1 \in T
  BY <1>1, <1>2
<1>. QED BY <1>1, <1>2, <1>3

\* A set of natural numbers with a bound has a greatest.
LEMMA Greatest ==
  ASSUME NEW m \in Nat, NEW T \in SUBSET (0 .. m), T # {}
  PROVE  \E x \in T : \A y \in T : y <= x
<1> DEFINE U == {m - x : x \in T}
<1>1. U \in SUBSET Nat /\ U # {}
  <2>1. \A x \in T : m - x \in Nat
    OBVIOUS
  <2>2. PICK x \in T : TRUE
    OBVIOUS
  <2>3. m - x \in U
    OBVIOUS
  <2>. QED BY <2>1, <2>3
<1>2. PICK u \in U : \A v \in U : u <= v
  BY <1>1, Least
<1>3. PICK x \in T : u = m - x
  OBVIOUS
<1>4. ASSUME NEW y \in T PROVE y <= x
  <2>1. m - y \in U
    OBVIOUS
  <2>2. m - x <= m - y
    BY <1>2, <1>3, <2>1
  <2>. QED BY <2>2
<1>. QED BY <1>4

\* 1 .. n + 1 has twice as many subsets as 1 .. n.
LEMMA PowerStep ==
  ASSUME NEW n \in Nat
  PROVE  /\ 2 ^ n \in Nat
         /\ 2 ^ (n + 1) = 2 ^ n + 2 ^ n
<1> DEFINE A == SUBSET (1 .. n)
           B == {a \cup {n + 1} : a \in A}
           f == [a \in A |-> a \cup {n + 1}]
<1>1. /\ IsFiniteSet(1 .. n) /\ Cardinality(1 .. n) = n
      /\ IsFiniteSet(1 .. n + 1) /\ Cardinality(1 .. n + 1) = n + 1
  BY FS_Interval
<1>2. /\ IsFiniteSet(A) /\ Cardinality(A) = 2 ^ n
      /\ Cardinality(SUBSET (1 .. n + 1)) = 2 ^ (n + 1)
  BY <1>1, FS_SUBSET
<1>3. f \in Bijection(A, B)
  <2>1. \A a, b \in A : f[a] = f[b] => a = b
    <3> SUFFICES ASSUME NEW a \in A, NEW b \in A,
                        a \cup {n + 1} = b \cup {n + 1}
                 PROVE  a = b
      OBVIOUS
    <3>1. n + 1 \notin a /\ n + 1 \notin b
      OBVIOUS
    <3>. QED BY <3>1
  <2>2. f \in [A -> B]
    OBVIOUS
  <2>3. \A b \in B : \E a \in A : f[a] = b
    OBVIOUS
  <2>. QED BY <2>1, <2>2, <2>3 DEF Bijection, Injection, Surjection, IsInjective
<1>4. IsFiniteSet(B) /\ Cardinality(B) = 2 ^ n
  BY <1>2, <1>3, FS_Bijection DEF ExistsBijection
<1>5. SUBSET (1 .. n + 1) = A \cup B
  <2>1. ASSUME NEW a \in SUBSET (1 .. n + 1) PROVE a \in A \cup B
    <3>1. CASE n + 1 \in a
      <4>1. a \ {n + 1} \in A
        OBVIOUS
      <4>2. a = (a \ {n + 1}) \cup {n + 1}
        BY <3>1
      <4>. QED BY <4>1, <4>2
    <3>2. CASE n + 1 \notin a
      <4>1. \A x \in a : x \in 1 .. n
        BY <3>2
      <4>. QED BY <4>1
    <3>. QED BY <3>1, <3>2
  <2>2. A \subseteq SUBSET (1 .. n + 1)
    OBVIOUS
  <2>3. B \subseteq SUBSET (1 .. n + 1)
    <3>1. n + 1 \in 1 .. n + 1
      OBVIOUS
    <3>. QED BY <2>2, <3>1
  <2>. QED BY <2>1, <2>2, <2>3
<1>6. A \cap B = {}
  <2>1. \A a \in A : n + 1 \notin a
    OBVIOUS
  <2>. QED BY <2>1
<1>7. Cardinality(A \cap B) = 0
  BY <1>6, FS_EmptySet
<1>8. 2 ^ n \in Nat
  BY <1>2, FS_CardinalityType
<1>9. Cardinality(A \cup B) = 2 ^ (n + 1)
  BY <1>2, <1>5
<1> HIDE DEF A, B
<1>10. Cardinality(A \cup B)
         = Cardinality(A) + Cardinality(B) - Cardinality(A \cap B)
  BY <1>2, <1>4, FS_Union
<1>11. 2 ^ (n + 1) = 2 ^ n + 2 ^ n - 0
  BY <1>2, <1>4, <1>7, <1>9, <1>10
<1>. QED BY <1>8, <1>11

LEMMA Powers ==
  /\ 2 ^ 0 = 1
  /\ \A n \in Nat : /\ 2 ^ n \in Nat /\ 2 ^ n >= 1
                    /\ 2 ^ (n + 1) = 2 ^ n + 2 ^ n
<1> DEFINE T == {n \in Nat : 2 ^ n >= 1}
<1>1. 2 ^ 0 = 1
  OBVIOUS
<1>2. \A n \in Nat : 2 ^ n \in Nat /\ 2 ^ (n + 1) = 2 ^ n + 2 ^ n
  BY PowerStep
<1>3. 0 \in T
  BY <1>1
<1>4. \A n \in Nat : n \in T => n + 1 \in T
  BY <1>2
<1>5. Nat \subseteq T
  <2> HIDE DEF T
  <2>. QED BY <1>3, <1>4, Induct
<1>. QED BY <1>1, <1>2, <1>5

LEMMA PowersGrow ==
  \A a, b \in Nat : a < b => 2 ^ (a + 1) <= 2 ^ b
<1> DEFINE T == {n \in Nat : \A a \in Nat : 2 ^ (a + 1) <= 2 ^ (a + 1 + n)}
<1>1. 0 \in T
  <2>1. \A a \in Nat : a + 1 + 0 = a + 1 /\ 2 ^ (a + 1) \in Nat
    BY Powers
  <2>. QED BY <2>1
<1>2. ASSUME NEW n \in Nat, n \in T PROVE n + 1 \in T
  <2> SUFFICES ASSUME NEW a \in Nat
               PROVE  2 ^ (a + 1) <= 2 ^ (a + 1 + (n + 1))
    OBVIOUS
  <2>1. 2 ^ (a + 1) <= 2 ^ (a + 1 + n)
    BY <1>2
  <2>2. a + 1 + n \in Nat /\ a + 1 + (n + 1) = (a + 1 + n) + 1
    OBVIOUS
  <2>3. /\ 2 ^ (a + 1 + n) \in Nat /\ 2 ^ (a + 1) \in Nat
        /\ 2 ^ ((a + 1 + n) + 1) = 2 ^ (a + 1 + n) + 2 ^ (a + 1 + n)
    BY <2>2, Powers
  <2>. QED BY <2>1, <2>2, <2>3
<1>3. Nat \subseteq T
  <2>1. \A n \in Nat : n \in T => n + 1 \in T
    BY <1>2
  <2> HIDE DEF T
  <2>. QED BY <1>1, <2>1, Induct
<1> SUFFICES ASSUME NEW a \in Nat, NEW b \in Nat, a < b
             PROVE  2 ^ (a + 1) <= 2 ^ b
  OBVIOUS
<1>4. b - a - 1 \in Nat /\ a + 1 + (b - a - 1) = b
  OBVIOUS
<1>5. 2 ^ (a + 1) <= 2 ^ (a + 1 + (b - a - 1))
  BY <1>3, <1>4
<1>. QED BY <1>4, <1>5

-----------------------------------------------------------------------------
(* Division.                                                               *)

LEMMA DivIs ==
  ASSUME NEW c \in Nat, NEW q \in Nat, q >= 1
  PROVE  /\ c \div q \in Nat
         /\ q * (c \div q) <= c
         /\ c < q * (c \div q) + q
<1>. QED OBVIOUS

LEMMA DivOnly ==
  ASSUME NEW c \in Nat, NEW q \in Nat, q >= 1, NEW d \in Nat,
         q * d <= c, c < q * d + q
  PROVE  c \div q = d
<1>. QED BY DivIs

LEMMA DivDouble ==
  ASSUME NEW c \in Nat, NEW q \in Nat, q >= 1
  PROVE  c \div (q + q) = (c \div q) \div 2
<1>. QED BY DivIs

-----------------------------------------------------------------------------
(* The rows of the tree.                                                   *)

LEMMA Shape ==
  /\ Depth \in Nat /\ MaxFile \in Nat
  /\ nchunks \in Nat /\ nchunks >= 1 /\ 2 ^ Depth = nchunks
  /\ nhashes \in Nat /\ nhashes + 1 = nchunks
  /\ 2 ^ (Depth + 1) = nchunks + nchunks
  /\ Chunk = 0 .. nchunks - 1 /\ Node = 0 .. nchunks + nhashes - 1
<1>1. Depth \in Nat /\ MaxFile \in Nat
  BY MerkleTreeAssumption
<1>. QED BY <1>1, Powers DEF nchunks, nhashes, Chunk, Node

InRow(i, k) == 2 ^ i - 1 <= k /\ k < 2 ^ (i + 1) - 1

LEMMA RowIs ==
  ASSUME NEW i \in 0 .. Depth, NEW k \in Nat, InRow(i, k)
  PROVE  RowOf(k) = i
<1>1. ASSUME NEW a \in 0 .. Depth, NEW b \in 0 .. Depth,
             InRow(a, k), InRow(b, k), a < b
      PROVE  FALSE
  <2>1. a \in Nat /\ b \in Nat /\ a + 1 \in Nat
    BY Shape
  <2>2. 2 ^ (a + 1) \in Nat /\ 2 ^ b \in Nat
    BY <2>1, Powers
  <2>3. 2 ^ (a + 1) <= 2 ^ b
    BY <1>1, <2>1, PowersGrow
  <2>. QED BY <1>1, <2>2, <2>3 DEF InRow
<1>2. \A j \in 0 .. Depth : InRow(j, k) => j = i
  <2> SUFFICES ASSUME NEW j \in 0 .. Depth, InRow(j, k), j # i PROVE FALSE
    OBVIOUS
  <2>1. j < i \/ i < j
    BY Shape
  <2>. QED BY <1>1, <2>1
<1>. QED BY <1>2 DEF RowOf, InRow

LEMMA NodeRow ==
  ASSUME NEW k \in Node
  PROVE  RowOf(k) \in 0 .. Depth /\ InRow(RowOf(k), k)
<1> DEFINE T == {i \in 0 .. Depth : 2 ^ i - 1 <= k}
<1>1. k \in Nat
  BY Shape
<1>2. 0 \in T
  BY <1>1, Powers, Shape
<1>3. PICK i \in T : \A j \in T : j <= i
  BY <1>2, Shape, Greatest
<1>4. InRow(i, k)
  <2>1. CASE i = Depth
    BY <2>1, <1>3, Shape DEF InRow
  <2>2. CASE i # Depth
    <3>1. i + 1 \in 0 .. Depth /\ i + 1 \notin T
      BY <2>2, <1>3, Shape
    <3>2. ~(2 ^ (i + 1) - 1 <= k)
      BY <3>1
    <3>3. 2 ^ (i + 1) \in Nat
      BY <3>1, Powers
    <3>. QED BY <1>1, <1>3, <3>2, <3>3 DEF InRow
  <2>. QED BY <2>1, <2>2
<1>5. RowOf(k) = i
  BY <1>1, <1>4, RowIs
<1>. QED BY <1>3, <1>4, <1>5

\* The last row holds the leaves.
LEMMA InnerRows ==
  ASSUME NEW k \in Node
  PROVE  /\ k < nhashes => RowOf(k) < Depth
         /\ k >= nhashes => RowOf(k) = Depth
<1>1. k \in Nat /\ Depth \in 0 .. Depth
  BY Shape
<1>2. CASE k < nhashes
  <2>1. RowOf(k) # Depth
    BY <1>2, NodeRow, Shape DEF InRow
  <2>. QED BY <1>2, <2>1, NodeRow, Shape
<1>3. CASE k >= nhashes
  <2>1. InRow(Depth, k)
    BY <1>3, Shape DEF InRow
  <2>. QED BY <1>1, <1>3, <2>1, RowIs, Shape
<1>. QED BY <1>1, <1>2, <1>3, Shape

LEMMA Children ==
  ASSUME NEW k \in Node, k < nhashes
  PROVE  /\ left(k) \in Node /\ right(k) \in Node
         /\ RowOf(left(k)) = RowOf(k) + 1
         /\ RowOf(right(k)) = RowOf(k) + 1
         /\ RowOf(k) + 1 \in 0 .. Depth
<1> DEFINE r == RowOf(k)
<1>1. r \in 0 .. Depth /\ InRow(r, k) /\ r < Depth
  BY NodeRow, InnerRows
<1> HIDE DEF r
<1>2. r \in Nat /\ r + 1 \in 0 .. Depth /\ r + 1 \in Nat
  BY <1>1, Shape
<1>3. /\ 2 ^ r \in Nat /\ 2 ^ (r + 1) = 2 ^ r + 2 ^ r
      /\ 2 ^ ((r + 1) + 1) = 2 ^ (r + 1) + 2 ^ (r + 1)
  BY <1>2, Powers
<1>4. left(k) \in Nat /\ right(k) \in Nat
  BY Shape DEF left, right
<1>5. InRow(r + 1, left(k)) /\ InRow(r + 1, right(k))
  BY <1>1, <1>3, Shape DEF InRow, left, right
<1>6. RowOf(left(k)) = r + 1 /\ RowOf(right(k)) = r + 1
  BY <1>2, <1>4, <1>5, RowIs
<1>7. left(k) \in Node /\ right(k) \in Node
  BY Shape DEF left, right
<1>. QED BY <1>2, <1>6, <1>7 DEF r

-----------------------------------------------------------------------------
(* The chunks below a node: all below the root, those of a node shared out *)
(* between its children, one below a leaf.                                 *)

\* The chunks below a node of row i.
Span(i) == 2 ^ (Depth - i)

LEMMA Spans ==
  /\ \A i \in 0 .. Depth : Span(i) \in Nat /\ Span(i) >= 1
  /\ \A i \in Nat : i < Depth => Span(i) = Span(i + 1) + Span(i + 1)
  /\ Span(Depth) = 1 /\ Span(0) = nchunks
<1>1. \A i \in 0 .. Depth : Depth - i \in Nat
  BY Shape
<1>2. ASSUME NEW i \in Nat, i < Depth
      PROVE  Span(i) = Span(i + 1) + Span(i + 1)
  <2>1. Depth - (i + 1) \in Nat /\ (Depth - (i + 1)) + 1 = Depth - i
    BY <1>2, Shape
  <2>2. 2 ^ ((Depth - (i + 1)) + 1)
          = 2 ^ (Depth - (i + 1)) + 2 ^ (Depth - (i + 1))
    BY <2>1, Powers
  <2>. QED BY <2>1, <2>2 DEF Span
<1>3. Depth - Depth = 0 /\ Depth - 0 = Depth
  BY Shape
<1>. QED BY <1>1, <1>2, <1>3, Powers, Shape DEF Span

\* Where node k stands in its row.
Column(k) == k - (2 ^ RowOf(k) - 1)

LEMMA BelowIs ==
  ASSUME NEW k \in Node
  PROVE  /\ Below(k) = {i \in Chunk : i \div Span(RowOf(k)) = Column(k)}
         /\ Below(k) \subseteq Chunk
         /\ Column(k) \in Nat
         /\ RowOf(k) \in 0 .. Depth
<1>1. RowOf(k) \in 0 .. Depth /\ InRow(RowOf(k), k) /\ RowOf(k) \in Nat
  BY NodeRow, Shape
<1>2. 2 ^ RowOf(k) \in Nat
  BY <1>1, Powers
<1>3. Column(k) \in Nat
  BY <1>1, <1>2, Shape DEF InRow, Column
<1>. QED BY <1>1, <1>3 DEF Below, Span, Column

LEMMA BelowRoot == 0 \in Node /\ Below(0) = Chunk
<1>1. 0 \in Node /\ 0 \in 0 .. Depth /\ 2 ^ (0 + 1) = 2 /\ 2 ^ 0 = 1
  BY Shape, Powers
<1>2. InRow(0, 0)
  BY <1>1 DEF InRow
<1>3. RowOf(0) = 0 /\ Column(0) = 0
  <2>1. RowOf(0) = 0
    BY <1>1, <1>2, RowIs
  <2>2. 0 - (1 - 1) = 0
    OBVIOUS
  <2>. QED BY <1>1, <2>1, <2>2 DEF Column
<1>4. \A i \in Chunk : i \div nchunks = 0
  BY Shape, DivOnly
<1>5. Below(0) = {i \in Chunk : i \div nchunks = 0}
  BY <1>1, <1>3, BelowIs, Spans
<1>. QED BY <1>1, <1>4, <1>5

LEMMA BelowLeaf ==
  ASSUME NEW c \in Chunk
  PROVE  nhashes + c \in Node /\ Below(nhashes + c) = {c}
<1> DEFINE k == nhashes + c
<1>1. k \in Node /\ k >= nhashes
  BY Shape
<1>2. RowOf(k) = Depth
  BY <1>1, InnerRows
<1>3. \A i \in Chunk : i \div 1 = i
  BY Shape, DivOnly
<1>4. Column(k) = c
  BY <1>2, Shape DEF Column
<1>. QED BY <1>1, <1>2, <1>3, <1>4, BelowIs, Spans

LEMMA ChildColumns ==
  ASSUME NEW k \in Node, k < nhashes
  PROVE  /\ Column(left(k)) = 2 * Column(k)
         /\ Column(right(k)) = 2 * Column(k) + 1
         /\ Span(RowOf(k)) = Span(RowOf(k) + 1) + Span(RowOf(k) + 1)
         /\ Span(RowOf(k) + 1) \in Nat /\ Span(RowOf(k) + 1) >= 1
<1> DEFINE r == RowOf(k)
<1>1. r \in Nat /\ r < Depth /\ r + 1 \in 0 .. Depth
  BY InnerRows, NodeRow, Shape
<1>2. 2 ^ r \in Nat /\ 2 ^ (r + 1) = 2 ^ r + 2 ^ r
  BY <1>1, Powers
<1>3. RowOf(left(k)) = r + 1 /\ RowOf(right(k)) = r + 1
  BY Children
<1>4. /\ Column(left(k)) = 2 * Column(k)
      /\ Column(right(k)) = 2 * Column(k) + 1
  BY <1>2, <1>3, Shape DEF Column, left, right
<1>. QED BY <1>1, <1>4, Spans

LEMMA BelowInner ==
  ASSUME NEW k \in Node, k < nhashes
  PROVE  /\ Below(k) = Below(left(k)) \cup Below(right(k))
         /\ Below(left(k)) \cap Below(right(k)) = {}
<1> DEFINE r == RowOf(k)
           q == Span(r + 1)
<1>1. /\ left(k) \in Node /\ right(k) \in Node
      /\ RowOf(left(k)) = r + 1 /\ RowOf(right(k)) = r + 1
      /\ r + 1 \in 0 .. Depth
  BY Children
<1>2. Span(r) = q + q /\ q \in Nat /\ q >= 1
  BY ChildColumns
<1>3. /\ Column(left(k)) = 2 * Column(k)
      /\ Column(right(k)) = 2 * Column(k) + 1
  BY ChildColumns
<1> DEFINE j == Column(k)
<1>4. j \in Nat
  BY BelowIs
<1> HIDE DEF r, q, j
<1>5. ASSUME NEW i \in Chunk
      PROVE  i \div q \in Nat /\ i \div Span(r) = (i \div q) \div 2
  <2>1. i \in Nat
    BY Shape
  <2>2. i \div (q + q) = (i \div q) \div 2
    BY <1>2, <2>1, DivDouble
  <2>. QED BY <1>2, <2>1, <2>2, DivIs
<1>6. \A n \in Nat : n \div 2 = j <=> n = 2 * j \/ n = 2 * j + 1
  BY <1>4
<1>7. \A i \in Chunk : i \in Below(k) <=> (i \div q) \div 2 = j
  BY <1>5, BelowIs DEF r, j
<1>8. \A i \in Chunk : i \in Below(left(k)) <=> i \div q = 2 * j
  BY <1>1, <1>3, BelowIs DEF q, j
<1>9. \A i \in Chunk : i \in Below(right(k)) <=> i \div q = 2 * j + 1
  BY <1>1, <1>3, BelowIs DEF q, j
<1>10. /\ Below(k) \subseteq Chunk /\ Below(left(k)) \subseteq Chunk
       /\ Below(right(k)) \subseteq Chunk
  BY <1>1, BelowIs
<1>11. 2 * j # 2 * j + 1
  BY <1>4
<1>. QED BY <1>5, <1>6, <1>7, <1>8, <1>9, <1>10, <1>11

\* What the leaves have, and a node has when its children do, all nodes have.
LEMMA Upwards ==
  ASSUME NEW T,
         \A c \in Chunk : nhashes + c \in T,
         \A k \in Node : k < nhashes /\ left(k) \in T /\ right(k) \in T => k \in T
  PROVE  Node \subseteq T
<1> SUFFICES ASSUME Node \ T # {} PROVE FALSE
  OBVIOUS
<1> DEFINE m == nchunks + nhashes - 1
<1>1. m \in Nat /\ Node = 0 .. m
  BY Shape
<1>2. PICK k \in Node \ T : \A y \in Node \ T : y <= k
  <2>1. Node \ T \in SUBSET (0 .. m)
    BY <1>1
  <2> HIDE DEF m
  <2>. QED BY <1>1, <2>1, Greatest
<1>3. CASE k < nhashes
  <2>1. left(k) \in Node /\ right(k) \in Node
    BY <1>3, Children
  <2>2. ~(left(k) <= k) /\ ~(right(k) <= k)
    BY <1>1 DEF left, right
  <2>. QED BY <1>2, <1>3, <2>1, <2>2
<1>4. CASE k >= nhashes
  <2>1. k - nhashes \in Chunk /\ nhashes + (k - nhashes) = k
    BY <1>4, Shape
  <2>. QED BY <1>2, <2>1
<1>. QED BY <1>1, <1>3, <1>4, Shape

LEMMA BelowSome == \A k \in Node : Below(k) # {}
<1> DEFINE T == {k \in Node : Below(k) # {}}
<1>1. \A c \in Chunk : nhashes + c \in T
  BY BelowLeaf
<1>2. \A k \in Node :
        k < nhashes /\ left(k) \in T /\ right(k) \in T => k \in T
  BY BelowInner
<1>3. Node \subseteq T
  <2> HIDE DEF T
  <2>. QED BY <1>1, <1>2, Upwards
<1>. QED BY <1>3

Parent(k) == (k - 1) \div 2

LEMMA Parents ==
  ASSUME NEW k \in Node, k # 0
  PROVE  /\ Parent(k) \in Node /\ Parent(k) < nhashes
         /\ k = left(Parent(k)) \/ k = right(Parent(k))
         /\ RowOf(k) = RowOf(Parent(k)) + 1
         /\ Below(k) \subseteq Below(Parent(k))
<1>1. /\ Parent(k) \in Node /\ Parent(k) < nhashes
      /\ k = left(Parent(k)) \/ k = right(Parent(k))
  BY Shape DEF Parent, left, right
<1>. QED BY <1>1, Children, BelowInner

\* The nodes that have children are the parents of those.
LEMMA ParentOfChild ==
  ASSUME NEW k \in Node
  PROVE  Parent(left(k)) = k /\ Parent(right(k)) = k
<1>1. k \in Nat
  BY Shape
<1>. QED BY <1>1 DEF Parent, left, right

\* Chunks below one node are below one node of every row above.
LEMMA Coarser ==
  ASSUME NEW a \in 0 .. Depth, NEW b \in 0 .. Depth, a <= b,
         NEW i \in Chunk, NEW j \in Chunk,
         i \div Span(b) = j \div Span(b)
  PROVE  i \div Span(a) = j \div Span(a)
<1> DEFINE Same(n) == i \div Span(n) = j \div Span(n)
           T == {n \in Nat : a + n <= Depth => (Same(a + n) => Same(a))}
<1>1. 0 \in T
  BY Shape
<1>2. \A n \in Nat : n \in T => n + 1 \in T
  <2> SUFFICES ASSUME NEW n \in Nat, n \in T,
                      a + (n + 1) <= Depth, Same(a + (n + 1))
               PROVE  Same(a)
    OBVIOUS
  <2> DEFINE q == Span((a + n) + 1)
  <2>1. /\ a + n \in Nat /\ a + n < Depth /\ a + (n + 1) = (a + n) + 1
        /\ (a + n) + 1 \in 0 .. Depth
    BY Shape
  <2>2. Span(a + n) = q + q /\ q \in Nat /\ q >= 1
    BY <2>1, Spans
  <2>3. i \div q = j \div q
    BY <2>1
  <2>4. i \in Nat /\ j \in Nat
    BY Shape
  <2> HIDE DEF q
  <2>5. /\ i \div (q + q) = (i \div q) \div 2
        /\ j \div (q + q) = (j \div q) \div 2
    BY <2>2, <2>4, DivDouble
  <2>6. Same(a + n)
    BY <2>2, <2>3, <2>5
  <2>7. a + n <= Depth => (Same(a + n) => Same(a))
    OBVIOUS
  <2> HIDE DEF Same
  <2>. QED BY <2>1, <2>6, <2>7, Shape
<1>3. Nat \subseteq T
  <2> HIDE DEF T
  <2>. QED BY <1>1, <1>2, Induct
<1>4. b - a \in Nat /\ a + (b - a) = b /\ b <= Depth
  BY Shape
<1>5. a + (b - a) <= Depth => (Same(a + (b - a)) => Same(a))
  BY <1>3, <1>4
<1>6. Same(b) => Same(a)
  <2> HIDE DEF Same
  <2>. QED BY <1>4, <1>5
<1>. QED BY <1>6

LEMMA Nested ==
  ASSUME NEW k \in Node, NEW m \in Node, RowOf(m) <= RowOf(k),
         Below(k) \cap Below(m) # {}
  PROVE  Below(k) \subseteq Below(m)
<1>1. PICK i \in Chunk : i \in Below(k) /\ i \in Below(m)
  BY BelowIs
<1>2. ASSUME NEW j \in Below(k) PROVE j \in Below(m)
  <2>1. j \in Chunk
    BY BelowIs
  <2>2. i \div Span(RowOf(k)) = j \div Span(RowOf(k))
    BY <1>1, <2>1, BelowIs
  <2>3. i \div Span(RowOf(m)) = j \div Span(RowOf(m))
    BY <2>1, <2>2, BelowIs, Coarser
  <2>. QED BY <1>1, <2>1, <2>3, BelowIs
<1>. QED BY <1>2

\* Of two nodes over one chunk, one is above the parent of the other.
LEMMA Laminar ==
  ASSUME NEW k \in Node, NEW m \in Node, k # m,
         Below(k) \cap Below(m) # {}
  PROVE  \/ k # 0 /\ Below(Parent(k)) \subseteq Below(m)
         \/ m # 0 /\ Below(Parent(m)) \subseteq Below(k)
<1>1. ASSUME NEW x \in Node, NEW y \in Node, RowOf(y) < RowOf(x),
             Below(x) \cap Below(y) # {}
      PROVE  x # 0 /\ Below(Parent(x)) \subseteq Below(y)
  <2>1. x # 0
    <3>1. 0 \in Node /\ Below(0) = Chunk /\ RowOf(y) \in 0 .. Depth
      BY BelowRoot, BelowIs
    <3>2. InRow(0, 0) /\ 0 \in 0 .. Depth
      BY Powers, Shape DEF InRow
    <3>3. RowOf(0) = 0
      BY <3>2, RowIs
    <3>. QED BY <1>1, <3>1, <3>3, Shape
  <2>2. /\ Parent(x) \in Node /\ RowOf(x) = RowOf(Parent(x)) + 1
        /\ Below(x) \subseteq Below(Parent(x))
    BY <2>1, Parents
  <2>3. RowOf(y) <= RowOf(Parent(x))
    <3>1. RowOf(y) \in 0 .. Depth /\ RowOf(Parent(x)) \in 0 .. Depth
      BY <2>2, BelowIs
    <3> HIDE DEF Parent
    <3>. QED BY <1>1, <2>2, <3>1, Shape
  <2>. QED BY <1>1, <2>1, <2>2, <2>3, Nested
<1>2. RowOf(k) # RowOf(m)
  <2> SUFFICES ASSUME RowOf(k) = RowOf(m) PROVE FALSE
    OBVIOUS
  <2>1. Column(k) = Column(m)
    BY BelowIs
  <2>2. RowOf(k) \in Nat
    BY BelowIs, Shape
  <2>3. 2 ^ RowOf(k) \in Nat
    BY <2>2, Powers
  <2>. QED BY <2>1, <2>3, Shape DEF Column
<1>3. RowOf(k) < RowOf(m) \/ RowOf(m) < RowOf(k)
  BY <1>2, BelowIs, Shape
<1>. QED BY <1>1, <1>3

-----------------------------------------------------------------------------
(* The hashes of the tree: the leaves are given, an inner node has the     *)
(* hash of its children's.                                                 *)

LEMMA LevelsAre ==
  ASSUME NEW leaves
  PROVE  \A i \in 0 .. Depth :
           Levels(leaves)[i] =
             IF i = Depth THEN leaves
             ELSE [j \in 0 .. 2 ^ i - 1 |->
                     Hash(Levels(leaves)[i + 1][2 * j],
                          Levels(leaves)[i + 1][2 * j + 1])]
<1> DEFINE Row(g, i) ==
             IF i = Depth THEN leaves
             ELSE [j \in 0 .. 2 ^ i - 1 |->
                     Hash(g[i + 1][2 * j], g[i + 1][2 * j + 1])]
           Fits(g, a) == \A i \in a .. Depth : g[i] = Row(g, i)
           T == {n \in Nat : n <= Depth => \E g : Fits(g, Depth - n)}
<1>1. \E g : Fits(g, Depth)
  <2> DEFINE g == [i \in {Depth} |-> leaves]
  <2>1. \A i \in Depth .. Depth : i = Depth
    BY Shape
  <2>2. Fits(g, Depth)
    BY <2>1
  <2> HIDE DEF g, Fits
  <2>. QED BY <2>2
<1>2. ASSUME NEW a \in Nat, a < Depth, NEW g, Fits(g, a + 1)
      PROVE  \E h : Fits(h, a)
  <2> DEFINE h == [i \in a .. Depth |-> IF i = a THEN Row(g, a) ELSE g[i]]
  <2>1. \A i \in a + 1 .. Depth : h[i] = g[i]
    BY Shape
  <2>2. h[a] = Row(h, a)
    <3>1. a + 1 \in a + 1 .. Depth /\ a \in a .. Depth
      <4>1. Depth \in Nat /\ a < Depth
        BY <1>2, Shape
      <4>. QED BY <4>1
    <3>2. h[a + 1] = g[a + 1]
      BY <2>1, <3>1
    <3>3. h[a] = Row(g, a)
      <4> HIDE DEF Row
      <4>. QED BY <3>1
    <3> HIDE DEF h
    <3>. QED BY <3>2, <3>3
  <2>3. ASSUME NEW i \in a + 1 .. Depth PROVE h[i] = Row(h, i)
    <3>1. CASE i = Depth
      BY <1>2, <2>1, <3>1
    <3>2. CASE i # Depth
      <4>1. i + 1 \in a + 1 .. Depth
        BY <3>2, Shape
      <4>2. h[i] = g[i] /\ h[i + 1] = g[i + 1] /\ g[i] = Row(g, i)
        BY <1>2, <2>1, <4>1
      <4>. QED BY <3>2, <4>2
    <3>. QED BY <3>1, <3>2
  <2>4. \A i \in a .. Depth : i = a \/ i \in a + 1 .. Depth
    BY Shape
  <2>5. \A i \in a .. Depth : h[i] = Row(h, i)
    <3> HIDE DEF h
    <3>. QED BY <2>2, <2>3, <2>4
  <2> HIDE DEF h
  <2>. QED BY <2>5
<1>3. \E g : Fits(g, 0)
  <2> HIDE DEF Fits
  <2>1. 0 \in T
    <3>1. Depth - 0 = Depth
      BY Shape
    <3>. QED BY <1>1, <3>1
  <2>2. ASSUME NEW n \in Nat, n \in T PROVE n + 1 \in T
    <3> SUFFICES ASSUME n + 1 <= Depth
                 PROVE  \E g : Fits(g, Depth - (n + 1))
      OBVIOUS
    <3>1. /\ Depth - (n + 1) \in Nat /\ Depth - (n + 1) < Depth
          /\ (Depth - (n + 1)) + 1 = Depth - n /\ n <= Depth
      BY Shape
    <3>2. PICK g : Fits(g, Depth - n)
      BY <2>2, <3>1
    <3>. QED BY <1>2, <3>1, <3>2
  <2>3. \A n \in Nat : n \in T => n + 1 \in T
    BY <2>2
  <2>4. Depth \in T
    <3> HIDE DEF T
    <3>. QED BY <2>1, <2>3, Induct, Shape
  <2>5. Depth <= Depth /\ Depth - Depth = 0
    BY Shape
  <2>. QED BY <2>4, <2>5
<1>4. PICK g : \A i \in 0 .. Depth : g[i] = Row(g, i)
  BY <1>3
<1> DEFINE Rows(f) == [i \in 0 .. Depth |-> Row(f, i)]
           h == [i \in 0 .. Depth |-> g[i]]
<1>5. h = Rows(h)
  <2>1. ASSUME NEW i \in 0 .. Depth PROVE h[i] = Row(h, i)
    <3>1. i # Depth => i + 1 \in 0 .. Depth
      BY Shape
    <3>. QED BY <1>4, <3>1
  <2>. QED BY <2>1
<1>6. Levels(leaves) = CHOOSE f : f = Rows(f)
  BY DEF Levels
<1>7. Levels(leaves) = Rows(Levels(leaves))
  <2> HIDE DEF h, Rows
  <2>. QED BY <1>5, <1>6
<1>. QED BY <1>7

LEMMA JoinedLeaf ==
  ASSUME NEW leaves, NEW c \in Chunk
  PROVE  Joined(Levels(leaves))[nhashes + c] = leaves[c]
<1>1. nhashes + c \in Node /\ nhashes + c >= nhashes
  BY Shape
<1>2. RowOf(nhashes + c) = Depth /\ Depth \in 0 .. Depth
  BY <1>1, InnerRows, Shape
<1>3. (nhashes + c) - (2 ^ Depth - 1) = c
  BY Shape
<1>4. Levels(leaves)[Depth] = leaves
  BY <1>2, LevelsAre
<1>. QED BY <1>1, <1>2, <1>3, <1>4 DEF Joined

LEMMA JoinedInner ==
  ASSUME NEW leaves, NEW k \in Node, k < nhashes
  PROVE  Joined(Levels(leaves))[k]
           = Hash(Joined(Levels(leaves))[left(k)],
                  Joined(Levels(leaves))[right(k)])
<1> DEFINE r == RowOf(k)
           j == k - (2 ^ r - 1)
           L == Levels(leaves)
<1>1. /\ r \in 0 .. Depth /\ InRow(r, k) /\ r # Depth
      /\ left(k) \in Node /\ right(k) \in Node
      /\ RowOf(left(k)) = r + 1 /\ RowOf(right(k)) = r + 1
  BY NodeRow, InnerRows, Children, Shape
<1> HIDE DEF r
<1>2. r \in Nat
  BY <1>1, Shape
<1>3. 2 ^ r \in Nat /\ 2 ^ (r + 1) = 2 ^ r + 2 ^ r
  BY <1>2, Powers
<1>4. j \in 0 .. 2 ^ r - 1
  BY <1>1, <1>3, Shape DEF InRow
<1>5. /\ left(k) - (2 ^ (r + 1) - 1) = 2 * j
      /\ right(k) - (2 ^ (r + 1) - 1) = 2 * j + 1
  BY <1>3, Shape DEF left, right
<1>6. L[r] = [n \in 0 .. 2 ^ r - 1 |-> Hash(L[r + 1][2 * n], L[r + 1][2 * n + 1])]
  BY <1>1, LevelsAre
<1>7. Joined(L)[k] = L[r][j]
  BY DEF Joined, r
<1>8. /\ Joined(L)[left(k)] = L[r + 1][2 * j]
      /\ Joined(L)[right(k)] = L[r + 1][2 * j + 1]
  BY <1>1, <1>5 DEF Joined
<1> HIDE DEF j, L
<1>9. L[r][j] = Hash(L[r + 1][2 * j], L[r + 1][2 * j + 1])
  BY <1>4, <1>6
<1>. QED BY <1>7, <1>8, <1>9 DEF L

-----------------------------------------------------------------------------
(* A branch has the hash it is expected to have just when the file holds   *)
(* the data of all its chunks.                                             *)

FilesTyped ==
  /\ truth \in [Chunk -> Block]
  /\ file \in Seq(Block)
  /\ Len(file) \in 1 .. MaxFile

Built == step # "load" => computed = Joined(Levels(LeafHashes))

LEMMA CompleteLeaf ==
  ASSUME FilesTyped, NEW c \in Chunk
  PROVE  /\ Complete(nhashes + c) <=> Written(c) /\ file[c + 1] = truth[c]
         /\ Complete(nhashes + c) <=> truth[c] = LeafHashes[c]
<1>1. Complete(nhashes + c) <=> Written(c) /\ file[c + 1] = truth[c]
  BY BelowLeaf DEF Complete
<1>2. Blank \notin Block /\ truth[c] \in Block
  BY MerkleTreeAssumption DEF FilesTyped
<1>3. LeafHashes[c] = IF Written(c) THEN file[c + 1] ELSE Blank
  BY DEF LeafHashes
<1>. QED BY <1>1, <1>2, <1>3

LEMMA CompleteInner ==
  ASSUME NEW k \in Node, k < nhashes
  PROVE  Complete(k) <=> Complete(left(k)) /\ Complete(right(k))
BY BelowInner DEF Complete

LEMMA CompleteBelow ==
  ASSUME NEW k \in Node, NEW m \in Node, Below(k) \subseteq Below(m), Complete(m)
  PROVE  Complete(k)
BY DEF Complete

LEMMA Expected ==
  ASSUME Whole
  PROVE  \A k \in Node : expected_hash[k] = Described[k]
BY DEF expected_hash, Whole, Described

LEMMA MatchingIsComplete ==
  ASSUME FilesTyped, Whole, computed = Joined(Levels(LeafHashes))
  PROVE  \A k \in Node : Matching(k) <=> Complete(k)
<1> DEFINE C == Joined(Levels(LeafHashes))
           T == {k \in Node : C[k] = Described[k] <=> Complete(k)}
<1>1. ASSUME NEW c \in Chunk PROVE nhashes + c \in T
  <2>1. C[nhashes + c] = LeafHashes[c] /\ Described[nhashes + c] = truth[c]
    BY JoinedLeaf DEF Described
  <2>2. nhashes + c \in Node
    BY BelowLeaf
  <2>. QED BY <2>1, <2>2, CompleteLeaf
<1>2. ASSUME NEW k \in Node, k < nhashes, left(k) \in T, right(k) \in T
      PROVE  k \in T
  <2>1. C[k] = <<C[left(k)], C[right(k)]>>
    BY <1>2, JoinedInner DEF Hash
  <2>2. Described[k] = <<Described[left(k)], Described[right(k)]>>
    BY <1>2, JoinedInner DEF Hash, Described
  <2>3. Complete(k) <=> Complete(left(k)) /\ Complete(right(k))
    BY <1>2, CompleteInner
  <2> HIDE DEF C
  <2>. QED BY <1>2, <2>1, <2>2, <2>3
<1>3. Node \subseteq T
  <2> HIDE DEF T
  <2>. QED BY <1>1, <1>2, Upwards
<1>. QED BY <1>3, Expected DEF Matching

-----------------------------------------------------------------------------
(* What the loop over the chunks and the traversal collect.                *)

Taken(test, g, n) ==
  IF n = 0 THEN <<>>
  ELSE IF test[n - 1] THEN Append(g[n - 1], truth[n - 1])
  ELSE g[n - 1]

LEMMA PickedIs ==
  ASSUME NEW test
  PROVE  \E g : /\ Picked(test) = g[nchunks]
                /\ \A n \in 0 .. nchunks : g[n] = Taken(test, g, n)
<1> DEFINE Fits(g, m) == \A n \in 0 .. m : g[n] = Taken(test, g, n)
           T == {m \in Nat : \E g : Fits(g, m)}
<1>1. 0 \in T
  <2> DEFINE g == [n \in {0} |-> <<>>]
  <2>1. Fits(g, 0)
    BY DEF Taken
  <2> HIDE DEF g, Fits
  <2>. QED BY <2>1
<1>2. ASSUME NEW m \in Nat, m \in T PROVE m + 1 \in T
  <2>1. PICK g : Fits(g, m)
    BY <1>2
  <2> DEFINE h == [n \in 0 .. m + 1 |->
                     IF n = m + 1 THEN Taken(test, g, m + 1) ELSE g[n]]
  <2>2. \A n \in 0 .. m : h[n] = g[n]
    OBVIOUS
  <2>3. h[m + 1] = Taken(test, h, m + 1)
    <3>1. h[m + 1] = Taken(test, g, m + 1)
      OBVIOUS
    <3>2. h[m] = g[m] /\ (m + 1) - 1 = m /\ m + 1 # 0
      BY <2>2
    <3> HIDE DEF h
    <3>. QED BY <3>1, <3>2 DEF Taken
  <2>4. ASSUME NEW n \in 0 .. m PROVE h[n] = Taken(test, h, n)
    <3>1. h[n] = g[n] /\ g[n] = Taken(test, g, n)
      BY <2>1, <2>2
    <3>2. n # 0 => n - 1 \in 0 .. m
      OBVIOUS
    <3>3. n # 0 => h[n - 1] = g[n - 1]
      BY <2>2, <3>2
    <3> HIDE DEF h
    <3>. QED BY <3>1, <3>3 DEF Taken
  <2>5. \A n \in 0 .. m + 1 : n = m + 1 \/ n \in 0 .. m
    OBVIOUS
  <2>6. Fits(h, m + 1)
    <3> HIDE DEF h
    <3>. QED BY <2>3, <2>4, <2>5
  <2> HIDE DEF h, Fits
  <2>. QED BY <2>6
<1>3. PICK g : Fits(g, nchunks)
  <2>1. \A n \in Nat : n \in T => n + 1 \in T
    BY <1>2
  <2>2. nchunks \in T
    <3> HIDE DEF T
    <3>. QED BY <1>1, <2>1, Induct, Shape
  <2> HIDE DEF Fits
  <2>. QED BY <2>2
<1> DEFINE All(f) == [n \in 0 .. nchunks |-> Taken(test, f, n)]
           h == [n \in 0 .. nchunks |-> g[n]]
<1>4. h = All(h)
  <2>1. ASSUME NEW n \in 0 .. nchunks PROVE h[n] = Taken(test, h, n)
    <3>1. n # 0 => n - 1 \in 0 .. nchunks
      BY Shape
    <3>2. h[n] = g[n] /\ (n # 0 => h[n - 1] = g[n - 1])
      BY <3>1
    <3>3. g[n] = Taken(test, g, n)
      BY <1>3
    <3> HIDE DEF h
    <3>. QED BY <3>2, <3>3 DEF Taken
  <2>2. h = [n \in 0 .. nchunks |-> h[n]]
    OBVIOUS
  <2> HIDE DEF h
  <2>. QED BY <2>1, <2>2
<1> DEFINE u == CHOOSE f : f = All(f)
<1>5. u = All(u)
  <2> HIDE DEF h, All
  <2>. QED BY <1>4
<1>6. Picked(test) = u[nchunks]
  BY DEF Picked, Taken
<1>7. \A n \in 0 .. nchunks : u[n] = Taken(test, u, n)
  <2> HIDE DEF u
  <2>. QED BY <1>5
<1>. QED BY <1>6, <1>7

LEMMA PickedLength ==
  ASSUME FilesTyped, NEW test
  PROVE  Picked(test) \in Seq(Block) /\ Len(Picked(test)) <= nchunks
<1>1. PICK g : /\ Picked(test) = g[nchunks]
               /\ \A n \in 0 .. nchunks : g[n] = Taken(test, g, n)
  BY PickedIs
<1> DEFINE T == {n \in Nat : n <= nchunks => g[n] \in Seq(Block) /\ Len(g[n]) <= n}
<1>2. 0 \in T
  <2>1. g[0] = <<>>
    <3>1. 0 \in 0 .. nchunks
      BY Shape
    <3>2. Taken(test, g, 0) = <<>>
      BY DEF Taken
    <3>. QED BY <1>1, <3>1, <3>2
  <2>2. g[0] \in Seq(Block) /\ Len(g[0]) = 0
    BY <2>1, EmptySeq
  <2>. QED BY <2>2
<1>3. \A n \in Nat : n \in T => n + 1 \in T
  <2> SUFFICES ASSUME NEW n \in Nat, n \in T, n + 1 <= nchunks
               PROVE  g[n + 1] \in Seq(Block) /\ Len(g[n + 1]) <= n + 1
    OBVIOUS
  <2>1. g[n] \in Seq(Block) /\ Len(g[n]) <= n
    BY Shape
  <2>2. g[n + 1] = IF test[n] THEN Append(g[n], truth[n]) ELSE g[n]
    <3>1. n + 1 \in 0 .. nchunks /\ n + 1 # 0 /\ (n + 1) - 1 = n
      BY Shape
    <3>. QED BY <1>1, <3>1 DEF Taken
  <2>3. truth[n] \in Block
    BY Shape DEF FilesTyped
  <2>. QED BY <2>1, <2>2, <2>3
<1>4. nchunks \in T
  <2> HIDE DEF T
  <2>. QED BY <1>2, <1>3, Induct, Shape
<1>. QED BY <1>1, <1>4, Shape

\* Chunks that follow one another are answered as they stand in the file.
LEMMA PickedRun ==
  ASSUME NEW test, NEW lo \in Nat, NEW hi \in Nat, lo <= hi, hi <= nchunks,
         \A i \in Chunk : test[i] <=> lo <= i /\ i < hi
  PROVE  Picked(test) = [p \in 1 .. hi - lo |-> truth[lo + p - 1]]
<1>1. PICK g : /\ Picked(test) = g[nchunks]
               /\ \A n \in 0 .. nchunks : g[n] = Taken(test, g, n)
  BY PickedIs
<1> DEFINE upto(n) == IF n <= lo THEN 0 ELSE IF n <= hi THEN n - lo ELSE hi - lo
           run(n) == [p \in 1 .. upto(n) |-> truth[lo + p - 1]]
           T == {n \in Nat : n <= nchunks => g[n] = run(n)}
<1>2. 0 \in T
  <2>1. g[0] = <<>>
    <3>1. 0 \in 0 .. nchunks
      BY Shape
    <3>2. Taken(test, g, 0) = <<>>
      BY DEF Taken
    <3>. QED BY <1>1, <3>1, <3>2
  <2>2. upto(0) = 0
    OBVIOUS
  <2>. QED BY <2>1, <2>2
<1>3. ASSUME NEW n \in Nat, n \in T PROVE n + 1 \in T
  <2> SUFFICES ASSUME n + 1 <= nchunks PROVE g[n + 1] = run(n + 1)
    OBVIOUS
  <2>1. g[n] = run(n)
    BY <1>3, Shape
  <2>2. g[n + 1] = IF test[n] THEN Append(g[n], truth[n]) ELSE g[n]
    <3>1. n + 1 \in 0 .. nchunks /\ n + 1 # 0 /\ (n + 1) - 1 = n
      BY Shape
    <3>. QED BY <1>1, <3>1 DEF Taken
  <2>3. n \in Chunk
    BY Shape
  <2>4. CASE lo <= n /\ n < hi
    <3>1. upto(n) = n - lo /\ upto(n + 1) = (n - lo) + 1 /\ n - lo \in Nat
      BY <2>4
    <3>2. g[n + 1] = Append(run(n), truth[n])
      BY <2>1, <2>2, <2>3, <2>4
    <3>3. lo + ((n - lo) + 1) - 1 = n
      OBVIOUS
    <3> DEFINE d == n - lo
    <3> HIDE DEF upto, d
    <3>4. run(n) = [p \in 1 .. d |-> truth[lo + p - 1]]
      BY <3>1 DEF d
    <3>5. run(n + 1) = [p \in 1 .. d + 1 |-> truth[lo + p - 1]]
      BY <3>1 DEF d
    <3>6. d \in Nat /\ lo + (d + 1) - 1 = n
      BY <3>1, <3>3 DEF d
    <3>7. Append([p \in 1 .. d |-> truth[lo + p - 1]], truth[n])
            = [p \in 1 .. d + 1 |-> truth[lo + p - 1]]
      BY <3>6
    <3>. QED BY <3>2, <3>4, <3>5, <3>7
  <2>5. CASE ~(lo <= n /\ n < hi)
    <3>1. upto(n + 1) = upto(n)
      BY <2>5
    <3>2. g[n + 1] = g[n]
      BY <2>2, <2>3, <2>5
    <3>. QED BY <2>1, <3>1, <3>2
  <2>. QED BY <2>4, <2>5
<1>4. nchunks \in T
  <2>1. \A n \in Nat : n \in T => n + 1 \in T
    BY <1>3
  <2> HIDE DEF T
  <2>. QED BY <1>2, <2>1, Induct, Shape
<1>5. upto(nchunks) = hi - lo
  BY Shape
<1>6. g[nchunks] = run(nchunks)
  BY <1>4, Shape
<1>. QED BY <1>1, <1>5, <1>6

Traversed(g, k) ==
  IF k >= nhashes THEN IF IsLeaf(k) THEN <<expected_hash[k]>> ELSE <<>>
  ELSE g[left(k)] \o g[right(k)]

LEMMA InorderIs == \A k \in Node : Inorder[k] = Traversed(Inorder, k)
<1> DEFINE last == nchunks + nhashes - 1
           Fits(g, a) == \A k \in a .. last : g[k] = Traversed(g, k)
           T == {n \in Nat : n <= last => \E g : Fits(g, last - n)}
<1>1. last \in Nat /\ Node = 0 .. last /\ last >= nhashes /\ nhashes \in Nat
  BY Shape
<1> HIDE DEF last
<1>2. \E g : Fits(g, last)
  <2> DEFINE g == [k \in {last} |-> Traversed(<<>>, last)]
  <2>1. \A k \in last .. last : k = last
    BY <1>1
  <2>2. g[last] = Traversed(g, last)
    BY <1>1 DEF Traversed
  <2>3. Fits(g, last)
    <3> HIDE DEF g
    <3>. QED BY <2>1, <2>2
  <2> HIDE DEF g, Fits
  <2>. QED BY <2>3
<1>3. ASSUME NEW a \in Nat, a < last, NEW g, Fits(g, a + 1)
      PROVE  \E h : Fits(h, a)
  <2> DEFINE h == [k \in a .. last |-> IF k = a THEN Traversed(g, a) ELSE g[k]]
  <2>1. \A k \in a + 1 .. last : h[k] = g[k]
    BY <1>1
  <2>2. ASSUME NEW k \in a .. last, k < nhashes
        PROVE  left(k) \in a + 1 .. last /\ right(k) \in a + 1 .. last
    <3>1. k \in Node /\ k \in Nat
      BY <1>1, <1>3
    <3>2. left(k) \in Node /\ right(k) \in Node
      BY <2>2, <3>1, Children
    <3>. QED BY <1>1, <1>3, <3>1, <3>2 DEF left, right
  <2>3. h[a] = Traversed(g, a)
    BY <1>1, <1>3
  <2>4. ASSUME NEW k \in a .. last PROVE Traversed(h, k) = Traversed(g, k)
    <3>1. k < nhashes => h[left(k)] = g[left(k)] /\ h[right(k)] = g[right(k)]
      BY <2>1, <2>2
    <3>2. k < nhashes \/ k >= nhashes
      BY <1>1
    <3> HIDE DEF h
    <3>. QED BY <3>1, <3>2 DEF Traversed
  <2>5. \A k \in a .. last : k = a \/ k \in a + 1 .. last
    BY <1>1
  <2>6. \A k \in a + 1 .. last : k \in a .. last /\ g[k] = Traversed(g, k)
    BY <1>1, <1>3
  <2>7. a \in a .. last
    BY <1>1, <1>3
  <2>8. Fits(h, a)
    <3> HIDE DEF h
    <3>. QED BY <2>1, <2>3, <2>4, <2>5, <2>6, <2>7
  <2> HIDE DEF h, Fits
  <2>. QED BY <2>8
<1>4. \E g : Fits(g, 0)
  <2> HIDE DEF Fits
  <2>1. 0 \in T
    <3>1. last - 0 = last
      BY <1>1
    <3>. QED BY <1>2, <3>1
  <2>2. ASSUME NEW n \in Nat, n \in T PROVE n + 1 \in T
    <3> SUFFICES ASSUME n + 1 <= last PROVE \E g : Fits(g, last - (n + 1))
      OBVIOUS
    <3>1. /\ last - (n + 1) \in Nat /\ last - (n + 1) < last
          /\ (last - (n + 1)) + 1 = last - n /\ n <= last
      BY <1>1
    <3>2. PICK g : Fits(g, last - n)
      BY <2>2, <3>1
    <3>. QED BY <1>3, <3>1, <3>2
  <2>3. \A n \in Nat : n \in T => n + 1 \in T
    BY <2>2
  <2>4. last \in T
    <3> HIDE DEF T
    <3>. QED BY <2>1, <2>3, Induct, <1>1
  <2>5. last <= last /\ last - last = 0
    BY <1>1
  <2>. QED BY <2>4, <2>5
<1>5. PICK g : \A k \in Node : g[k] = Traversed(g, k)
  BY <1>1, <1>4
<1> DEFINE All(f) == [k \in Node |-> Traversed(f, k)]
           h == [k \in Node |-> g[k]]
<1>6. h = All(h)
  <2>1. ASSUME NEW k \in Node PROVE h[k] = Traversed(h, k)
    <3>1. k < nhashes => left(k) \in Node /\ right(k) \in Node
      BY Children
    <3>2. h[k] = g[k] /\ (k < nhashes => h[left(k)] = g[left(k)]
                                         /\ h[right(k)] = g[right(k)])
      BY <3>1
    <3>3. g[k] = Traversed(g, k) /\ (k < nhashes \/ k >= nhashes)
      BY <1>1, <1>5
    <3> HIDE DEF h
    <3>. QED BY <3>2, <3>3 DEF Traversed
  <2>2. h = [k \in Node |-> h[k]]
    OBVIOUS
  <2> HIDE DEF h
  <2>. QED BY <2>1, <2>2
<1>7. Inorder = CHOOSE f : f = All(f)
  BY DEF Inorder, Traversed
<1>8. Inorder = All(Inorder)
  <2> HIDE DEF h, All
  <2>. QED BY <1>6, <1>7
<1>. QED BY <1>8

Hashes == {expected_hash[k] : k \in Node}

\* The traversal below a node answers no more hashes than there are chunks.
LEMMA InorderLength ==
  \A k \in Node : Inorder[k] \in Seq(Hashes) /\ Len(Inorder[k]) <= nchunks
<1> DEFINE T == {k \in Node : /\ Inorder[k] \in Seq(Hashes)
                              /\ IsFiniteSet(Below(k))
                              /\ Len(Inorder[k]) <= Cardinality(Below(k))}
<1>1. ASSUME NEW c \in Chunk PROVE nhashes + c \in T
  <2> DEFINE k == nhashes + c
  <2>1. k \in Node /\ Below(k) = {c} /\ k >= nhashes
    BY BelowLeaf, Shape
  <2>2. Inorder[k] = IF IsLeaf(k) THEN <<expected_hash[k]>> ELSE <<>>
    BY <2>1, InorderIs DEF Traversed
  <2>3. IsFiniteSet({c}) /\ Cardinality({c}) = 1
    BY FS_Singleton
  <2>4. expected_hash[k] \in Hashes
    BY <2>1 DEF Hashes
  <2> HIDE DEF k
  <2>5. Inorder[k] \in Seq(Hashes) /\ Len(Inorder[k]) <= 1
    BY <2>2, <2>4
  <2>. QED BY <2>1, <2>3, <2>5 DEF k
<1>2. ASSUME NEW k \in Node, k < nhashes, left(k) \in T, right(k) \in T
      PROVE  k \in T
  <2> DEFINE A == Below(left(k))
             B == Below(right(k))
  <2>1. /\ Below(k) = A \cup B /\ A \cap B = {}
        /\ IsFiniteSet(A) /\ IsFiniteSet(B)
    BY <1>2, BelowInner
  <2>2. Inorder[k] = Inorder[left(k)] \o Inorder[right(k)]
    <3>1. ~(k >= nhashes)
      BY <1>2, Shape
    <3>. QED BY <3>1, InorderIs DEF Traversed
  <2>3. /\ Inorder[left(k)] \in Seq(Hashes) /\ Inorder[right(k)] \in Seq(Hashes)
        /\ Len(Inorder[left(k)]) <= Cardinality(A)
        /\ Len(Inorder[right(k)]) <= Cardinality(B)
    BY <1>2
  <2> HIDE DEF A, B
  <2>4. /\ IsFiniteSet(A \cup B)
        /\ Cardinality(A \cup B)
             = Cardinality(A) + Cardinality(B) - Cardinality(A \cap B)
    BY <2>1, FS_Union
  <2>5. /\ Cardinality(A \cap B) = 0
        /\ Cardinality(A) \in Nat /\ Cardinality(B) \in Nat
    BY <2>1, FS_EmptySet, FS_CardinalityType
  <2>6. /\ Inorder[k] \in Seq(Hashes)
        /\ Len(Inorder[k]) = Len(Inorder[left(k)]) + Len(Inorder[right(k)])
        /\ Len(Inorder[left(k)]) \in Nat /\ Len(Inorder[right(k)]) \in Nat
    BY <2>2, <2>3
  <2>7. Cardinality(Below(k)) = Cardinality(A) + Cardinality(B)
    BY <2>1, <2>4, <2>5
  <2>8. Len(Inorder[k]) <= Cardinality(Below(k))
    <3>1. \A x, y, v, w \in Nat : x <= v /\ y <= w => x + y <= v + w
      OBVIOUS
    <3>. QED BY <2>3, <2>5, <2>6, <2>7, <3>1
  <2>. QED BY <2>1, <2>4, <2>6, <2>8
<1>3. Node \subseteq T
  <2> HIDE DEF T
  <2>. QED BY <1>1, <1>2, Upwards
<1>4. IsFiniteSet(Chunk) /\ Cardinality(Chunk) = nchunks
  <2>1. IsFiniteSet(0 .. nchunks - 1) /\ Cardinality(0 .. nchunks - 1) = nchunks
    BY Shape, FS_Interval
  <2>. QED BY <2>1, Shape
<1> SUFFICES ASSUME NEW k \in Node
             PROVE  Inorder[k] \in Seq(Hashes) /\ Len(Inorder[k]) <= nchunks
  OBVIOUS
<1>5. Cardinality(Below(k)) <= nchunks
  BY <1>4, BelowIs, FS_Subset
<1>6. /\ Inorder[k] \in Seq(Hashes) /\ Len(Inorder[k]) <= Cardinality(Below(k))
      /\ Cardinality(Below(k)) \in Nat
  BY <1>3, FS_CardinalityType
<1>. QED BY <1>5, <1>6, Shape

\* The first chunk below a node.
Low(k) == Column(k) * Span(RowOf(k))

LEMMA Lows ==
  /\ \A c \in Chunk : Low(nhashes + c) = c /\ Span(RowOf(nhashes + c)) = 1
  /\ \A k \in Node : Low(k) \in Nat /\ Span(RowOf(k)) \in Nat
  /\ \A k \in Node : k < nhashes =>
       /\ Low(left(k)) = Low(k)
       /\ Low(right(k)) = Low(k) + Span(RowOf(left(k)))
       /\ RowOf(left(k)) = RowOf(right(k))
       /\ Span(RowOf(k)) = Span(RowOf(left(k))) + Span(RowOf(right(k)))
  /\ \A k \in Node : Below(k)
       = {i \in Chunk : Low(k) <= i /\ i < Low(k) + Span(RowOf(k))}
<1>1. ASSUME NEW c \in Chunk
      PROVE  Low(nhashes + c) = c /\ Span(RowOf(nhashes + c)) = 1
  <2>1. nhashes + c \in Node /\ nhashes + c >= nhashes
    BY Shape
  <2>2. RowOf(nhashes + c) = Depth
    BY <2>1, InnerRows
  <2>3. Column(nhashes + c) = c
    BY <2>2, Shape DEF Column
  <2>. QED BY <2>2, <2>3, Spans, Shape DEF Low
<1>2. ASSUME NEW k \in Node PROVE Low(k) \in Nat /\ Span(RowOf(k)) \in Nat
  BY BelowIs, Spans DEF Low
<1>3. ASSUME NEW k \in Node, k < nhashes
      PROVE  /\ Low(left(k)) = Low(k)
             /\ Low(right(k)) = Low(k) + Span(RowOf(left(k)))
             /\ RowOf(left(k)) = RowOf(right(k))
             /\ Span(RowOf(k)) = Span(RowOf(left(k))) + Span(RowOf(right(k)))
  <2> DEFINE q == Span(RowOf(k) + 1)
             j == Column(k)
  <2>1. RowOf(left(k)) = RowOf(k) + 1 /\ RowOf(right(k)) = RowOf(k) + 1
    BY <1>3, Children
  <2>2. /\ Column(left(k)) = 2 * j /\ Column(right(k)) = 2 * j + 1
        /\ Span(RowOf(k)) = q + q /\ q \in Nat
    BY <1>3, ChildColumns
  <2>3. j \in Nat
    BY BelowIs
  <2>4. /\ Low(left(k)) = (2 * j) * q /\ Low(right(k)) = (2 * j + 1) * q
        /\ Low(k) = j * (q + q)
    BY <2>1, <2>2 DEF Low
  <2> HIDE DEF q, j
  <2>5. (2 * j) * q = j * (q + q) /\ (2 * j + 1) * q = j * (q + q) + q
    BY <2>2, <2>3
  <2>. QED BY <2>1, <2>2, <2>4, <2>5 DEF q
<1>4. ASSUME NEW k \in Node
      PROVE  Below(k) = {i \in Chunk : Low(k) <= i /\ i < Low(k) + Span(RowOf(k))}
  <2> DEFINE q == Span(RowOf(k))
             j == Column(k)
  <2>1. q \in Nat /\ q >= 1 /\ j \in Nat
    BY BelowIs, Spans
  <2>2. Low(k) = j * q /\ Below(k) = {i \in Chunk : i \div q = j}
    BY BelowIs DEF Low
  <2> HIDE DEF q, j
  <2>3. ASSUME NEW i \in Chunk
        PROVE  i \div q = j <=> j * q <= i /\ i < j * q + q
    <3>1. i \in Nat /\ j * q = q * j
      BY <2>1, Shape
    <3>2. i \div q = j => q * j <= i /\ i < q * j + q
      BY <2>1, <3>1, DivIs
    <3>3. q * j <= i /\ i < q * j + q => i \div q = j
      BY <2>1, <3>1, DivOnly
    <3>. QED BY <3>1, <3>2, <3>3
  <2>4. Below(k) = {i \in Chunk : j * q <= i /\ i < j * q + q}
    BY <2>2, <2>3
  <2>. QED BY <2>2, <2>4 DEF q
<1>. QED BY <1>1, <1>2, <1>3, <1>4

LEMMA Concatenated ==
  ASSUME NEW f, NEW lo \in Nat, NEW a \in Nat, NEW b \in Nat
  PROVE  [p \in 1 .. a |-> f[lo + p - 1]] \o [p \in 1 .. b |-> f[lo + a + p - 1]]
           = [p \in 1 .. a + b |-> f[lo + p - 1]]
<1> DEFINE s == [p \in 1 .. a |-> f[lo + p - 1]]
           t == [p \in 1 .. b |-> f[lo + a + p - 1]]
           u == [p \in 1 .. a + b |-> f[lo + p - 1]]
           V == {f[x] : x \in Nat}
<1>0. u \in Seq(V) /\ Len(u) = a + b
  <2>1. \A p \in 1 .. a + b : lo + p - 1 \in Nat
    OBVIOUS
  <2>. QED BY <2>1
<1>1. s \in Seq(V) /\ Len(s) = a
  <2>1. \A p \in 1 .. a : lo + p - 1 \in Nat
    OBVIOUS
  <2>. QED BY <2>1
<1>2. t \in Seq(V) /\ Len(t) = b
  <2>1. \A p \in 1 .. b : lo + a + p - 1 \in Nat
    OBVIOUS
  <2>. QED BY <2>1
<1>3. \A p \in 1 .. a : s[p] = f[lo + p - 1]
  OBVIOUS
<1>4. ASSUME NEW p \in a + 1 .. a + b PROVE t[p - a] = f[lo + p - 1]
  <2>1. p - a \in 1 .. b /\ lo + a + (p - a) - 1 = lo + p - 1
    OBVIOUS
  <2>. QED BY <2>1
<1> HIDE DEF s, t, V
<1>5. /\ s \o t \in Seq(V) /\ Len(s \o t) = a + b
      /\ \A p \in 1 .. a + b :
           (s \o t)[p] = IF p <= a THEN s[p] ELSE t[p - a]
  BY <1>1, <1>2, ConcatProperties
<1>6. \A p \in 1 .. a + b : (s \o t)[p] = u[p]
  <2>1. \A p \in 1 .. a + b : p <= a => p \in 1 .. a
    OBVIOUS
  <2>2. \A p \in 1 .. a + b : ~(p <= a) => p \in a + 1 .. a + b
    OBVIOUS
  <2>. QED BY <1>3, <1>4, <1>5, <2>1, <2>2 DEF u
<1> HIDE DEF u
<1>7. s \o t = u
  BY <1>5, <1>6, <1>0, SeqEqual
<1>. QED BY <1>7 DEF s, t, u

\* Over a whole file the traversal answers the hashes of the chunks below.
LEMMA InorderRun ==
  ASSUME FilesTyped, Whole
  PROVE  \A k \in Node : Inorder[k] = Picked([i \in Chunk |-> i \in Below(k)])
<1> DEFINE Run(k) == [p \in 1 .. Span(RowOf(k)) |-> truth[Low(k) + p - 1]]
           T == {k \in Node : /\ Inorder[k] = Run(k)
                              /\ Low(k) + Span(RowOf(k)) <= nchunks}
<1>1. ASSUME NEW c \in Chunk PROVE nhashes + c \in T
  <2> DEFINE k == nhashes + c
  <2>1. k \in Node /\ k >= nhashes /\ k - nhashes = c
    BY Shape
  <2>2. Low(k) = c /\ Span(RowOf(k)) = 1
    BY Lows
  <2>3. expected_hash[k] = truth[c]
    BY <2>1, Expected, JoinedLeaf DEF Described
  <2>4. IsLeaf(k)
    <3>1. nchunks - 1 < Len(file)
      BY DEF Whole, Written
    <3>2. c <= nchunks - 1 /\ c \in Nat /\ Len(file) \in Nat
      BY Shape DEF FilesTyped
    <3>. QED BY <2>1, <3>1, <3>2, Shape DEF IsLeaf, Written
  <2>5. Inorder[k] = <<truth[c]>>
    BY <2>1, <2>3, <2>4, InorderIs DEF Traversed
  <2>6. Run(k) = <<truth[c]>>
    <3>1. Run(k) = [p \in 1 .. 1 |-> truth[c + p - 1]]
      BY <2>2
    <3>2. \A p \in 1 .. 1 : c + p - 1 = c
      BY Shape
    <3>3. [p \in 1 .. 1 |-> truth[c + p - 1]] = [p \in 1 .. 1 |-> truth[c]]
      BY <3>2
    <3>4. <<truth[c]>> = [p \in 1 .. 1 |-> truth[c]]
      OBVIOUS
    <3>. QED BY <3>1, <3>3, <3>4
  <2>7. Low(k) + Span(RowOf(k)) <= nchunks
    BY <2>2, Shape
  <2>. QED BY <2>1, <2>5, <2>6, <2>7
<1>2. ASSUME NEW k \in Node, k < nhashes, left(k) \in T, right(k) \in T
      PROVE  k \in T
  <2> DEFINE q == Span(RowOf(left(k)))
             lo == Low(k)
  <2>1. left(k) \in Node /\ right(k) \in Node
    BY <1>2, Children
  <2>2. /\ Low(left(k)) = lo /\ Low(right(k)) = lo + q
        /\ Span(RowOf(right(k))) = q /\ Span(RowOf(k)) = q + q
    BY <1>2, Lows
  <2>3. q \in Nat /\ lo \in Nat
    BY <2>1, Lows
  <2>4. Inorder[k] = Inorder[left(k)] \o Inorder[right(k)]
    <3>1. ~(k >= nhashes)
      BY <1>2, Shape
    <3>. QED BY <3>1, InorderIs DEF Traversed
  <2>5. /\ Inorder[left(k)] = [p \in 1 .. q |-> truth[lo + p - 1]]
        /\ Inorder[right(k)] = [p \in 1 .. q |-> truth[lo + q + p - 1]]
        /\ Low(right(k)) + Span(RowOf(right(k))) <= nchunks
    BY <1>2, <2>2
  <2>6. Run(k) = [p \in 1 .. q + q |-> truth[lo + p - 1]]
    BY <2>2
  <2> HIDE DEF q, lo
  <2>7. Inorder[k] = [p \in 1 .. q + q |-> truth[lo + p - 1]]
    <3>1. [p \in 1 .. q |-> truth[lo + p - 1]]
            \o [p \in 1 .. q |-> truth[lo + q + p - 1]]
            = [p \in 1 .. q + q |-> truth[lo + p - 1]]
      BY <2>3, Concatenated
    <3>. QED BY <2>4, <2>5, <3>1
  <2>8. Low(k) + Span(RowOf(k)) <= nchunks
    BY <2>2, <2>3, <2>5, Shape DEF lo
  <2>. QED BY <2>6, <2>7, <2>8
<1>3. Node \subseteq T
  <2> HIDE DEF T
  <2>. QED BY <1>1, <1>2, Upwards
<1> SUFFICES ASSUME NEW k \in Node
             PROVE  Inorder[k] = Picked([i \in Chunk |-> i \in Below(k)])
  OBVIOUS
<1> DEFINE test == [i \in Chunk |-> i \in Below(k)]
           lo == Low(k)
           hi == Low(k) + Span(RowOf(k))
<1>4. lo \in Nat /\ hi \in Nat /\ lo <= hi /\ hi - lo = Span(RowOf(k))
  BY Lows
<1>5. hi <= nchunks /\ Inorder[k] = Run(k)
  BY <1>3
<1>6. \A i \in Chunk : test[i] <=> lo <= i /\ i < hi
  <2>1. \A i \in Chunk : test[i] = (i \in Below(k))
    OBVIOUS
  <2>2. \A i \in Chunk : i \in Below(k) <=> lo <= i /\ i < hi
    BY Lows
  <2> HIDE DEF test, lo, hi
  <2>. QED BY <2>1, <2>2
<1>7. Picked(test) = [p \in 1 .. hi - lo |-> truth[lo + p - 1]]
  <2> HIDE DEF test, lo, hi
  <2>. QED BY <1>4, <1>5, <1>6, PickedRun
<1>. QED BY <1>4, <1>5, <1>7

\* No block is a pair of hashes: what SHA-256 gives for a chunk it gives for
\* no two concatenated hashes.
NoPairIsABlock == \A x, y : <<x, y>> \notin Block

\* Branches of one hash hold the same data.
LEMMA SameHashSameLeaves ==
  ASSUME FilesTyped, Whole, NoPairIsABlock,
         NEW k \in Node, NEW m \in Node, Described[k] = Described[m]
  PROVE  Inorder[k] = Inorder[m]
<1> DEFINE T == {x \in Node : \A y \in Node :
                   Described[x] = Described[y] => Inorder[x] = Inorder[y]}
<1>1. \A x \in Node : x >= nhashes =>
        Described[x] \in Block /\ Inorder[x] = <<Described[x]>>
  <2> SUFFICES ASSUME NEW x \in Node, x >= nhashes
               PROVE  Described[x] \in Block /\ Inorder[x] = <<Described[x]>>
    OBVIOUS
  <2>1. x - nhashes \in Chunk /\ nhashes + (x - nhashes) = x
    BY Shape
  <2>2. Described[x] = truth[x - nhashes]
    BY <2>1, JoinedLeaf DEF Described
  <2>3. Described[x] \in Block
    BY <2>1, <2>2 DEF FilesTyped
  <2>4. IsLeaf(x)
    <3>1. nchunks - 1 < Len(file)
      BY DEF Whole, Written
    <3>2. Len(file) \in Nat
      BY DEF FilesTyped
    <3>. QED BY <2>1, <3>1, <3>2, Shape DEF IsLeaf, Written
  <2>5. Inorder[x] = <<expected_hash[x]>>
    BY <2>4, InorderIs DEF Traversed
  <2>. QED BY <2>3, <2>5, Expected
<1>2. \A x \in Node : x < nhashes =>
        /\ Described[x] = <<Described[left(x)], Described[right(x)]>>
        /\ Described[x] \notin Block
        /\ Inorder[x] = Inorder[left(x)] \o Inorder[right(x)]
        /\ left(x) \in Node /\ right(x) \in Node
  <2> SUFFICES ASSUME NEW x \in Node, x < nhashes
               PROVE  /\ Described[x] = <<Described[left(x)], Described[right(x)]>>
                      /\ Described[x] \notin Block
                      /\ Inorder[x] = Inorder[left(x)] \o Inorder[right(x)]
                      /\ left(x) \in Node /\ right(x) \in Node
    OBVIOUS
  <2>1. Described[x] = <<Described[left(x)], Described[right(x)]>>
    BY JoinedInner DEF Described, Hash
  <2>2. ~(x >= nhashes)
    BY Shape
  <2>3. Inorder[x] = Inorder[left(x)] \o Inorder[right(x)]
    BY <2>2, InorderIs DEF Traversed
  <2>4. Described[x] \notin Block
    BY <2>1 DEF NoPairIsABlock
  <2>5. left(x) \in Node /\ right(x) \in Node
    BY Children
  <2>. QED BY <2>1, <2>3, <2>4, <2>5
<1>3. \A x \in Node : x < nhashes \/ x >= nhashes
  BY Shape
<1>4. ASSUME NEW c \in Chunk PROVE nhashes + c \in T
  <2>1. nhashes + c \in Node /\ nhashes + c >= nhashes
    BY Shape
  <2>. QED BY <1>1, <1>2, <1>3, <2>1
<1>5. ASSUME NEW x \in Node, x < nhashes, left(x) \in T, right(x) \in T
      PROVE  x \in T
  <2> SUFFICES ASSUME NEW y \in Node, Described[x] = Described[y]
               PROVE  Inorder[x] = Inorder[y]
    OBVIOUS
  <2>1. y < nhashes
    BY <1>1, <1>2, <1>3, <1>5
  <2>2. /\ Described[left(x)] = Described[left(y)]
        /\ Described[right(x)] = Described[right(y)]
    <3>1. /\ Described[x] = <<Described[left(x)], Described[right(x)]>>
          /\ Described[y] = <<Described[left(y)], Described[right(y)]>>
      BY <1>2, <1>5, <2>1
    <3>2. \A a, b, c, d : <<a, b>> = <<c, d>> => a = c /\ b = d
      OBVIOUS
    <3>3. <<Described[left(x)], Described[right(x)]>>
            = <<Described[left(y)], Described[right(y)]>>
      BY <3>1
    <3>. QED BY <3>2, <3>3
  <2>3. Inorder[left(x)] = Inorder[left(y)] /\ Inorder[right(x)] = Inorder[right(y)]
    BY <1>2, <1>5, <2>1, <2>2
  <2>. QED BY <1>2, <1>5, <2>1, <2>3
<1>6. Node \subseteq T
  <2> HIDE DEF T
  <2>. QED BY <1>4, <1>5, Upwards
<1>. QED BY <1>6

-----------------------------------------------------------------------------
(* The invariant.                                                          *)

InMin == asked[1] = "min_hashes"

\* What has been answered, and to what, at each step.
Answering ==
  /\ step \in {"load", "ready"} => asked = <<"nothing", NoHash>> /\ out = <<>>
  /\ InMin => step \in {"min", "done"}
  /\ step = "min" => InMin
  /\ ~InMin => found = {}
  /\ step # "min" => queue = <<>>

\* One hash is answered for each node found.
Counted ==
  InMin => /\ out \in Seq(Hashes)
           /\ IsFiniteSet(found) /\ Len(out) = Cardinality(found)

\* The chunks below an entry of the queue.
Chunks(k) == IF k = Null THEN {} ELSE Below(k)

\* No chunk is below two nodes that are answered or queued.
Apart ==
  /\ \A k, m \in found : k # m => Below(k) \cap Below(m) = {}
  /\ \A n, p \in 1 .. Len(queue) :
       n # p => Chunks(queue[n]) \cap Chunks(queue[p]) = {}
  /\ \A k \in found : \A n \in 1 .. Len(queue) :
       Below(k) \cap Chunks(queue[n]) = {}

\* A completed chunk is below a node that is answered or queued.
Covered ==
  Whole /\ InMin =>
    \A i \in Chunk : Complete(nhashes + i) =>
      \/ \E k \in found : i \in Below(k)
      \/ \E n \in 1 .. Len(queue) : i \in Chunks(queue[n])

\* Only below a branch that is not complete does the loop go down.
Topmost ==
  Whole =>
    /\ \A k \in found : Complete(k) /\ (k = 0 \/ ~Complete(Parent(k)))
    /\ \A n \in 1 .. Len(queue) :
         queue[n] \in Node /\ (queue[n] = 0 \/ ~Complete(Parent(queue[n])))

MerkleInv ==
  /\ TypeOK
  /\ FilesTyped
  /\ Built
  /\ Answering
  /\ Counted
  /\ Apart
  /\ Covered
  /\ Topmost
  /\ OutputFits
  /\ ChunkCheckExact

LEMMA InvInit == Init => MerkleInv
<1> SUFFICES ASSUME Init PROVE MerkleInv
  OBVIOUS
<1>1. FilesTyped
  <2>1. PICK n \in 1 .. MaxFile : file \in [1 .. n -> Block]
    BY DEF Init
  <2>2. n \in Nat
    BY Shape
  <2>3. file \in Seq(Block) /\ Len(file) = n
    BY <2>1, <2>2
  <2>. QED BY <2>1, <2>3 DEF Init, FilesTyped
<1>2. TypeOK
  BY <1>1 DEF Init, TypeOK, FilesTyped
<1>3. asked[1] = "nothing"
  BY DEF Init
<1>4. Built /\ Answering
  BY <1>3 DEF Init, Built, Answering, InMin
<1>5. Len(queue) = 0 /\ Len(out) = 0
  BY DEF Init
<1>6. Counted /\ Covered /\ ChunkCheckExact
  BY <1>3 DEF Init, InMin, Counted, Covered, ChunkCheckExact, Done
<1>7. Apart /\ Topmost
  BY <1>5 DEF Init, Apart, Topmost
<1>8. OutputFits
  BY <1>3, <1>5, Shape DEF OutputFits
<1>. QED BY <1>1, <1>2, <1>4, <1>6, <1>7, <1>8 DEF MerkleInv

\* What a step that leaves the files alone leaves alone with them.
LEMMA SameFiles ==
  ASSUME UNCHANGED inputs
  PROVE  /\ Whole' <=> Whole
         /\ \A k : Complete(k)' <=> Complete(k)
         /\ expected_hash' = expected_hash
         /\ Hashes' = Hashes
         /\ LeafHashes' = LeafHashes
         /\ FilesTyped => FilesTyped'
<1>1. truth' = truth /\ file' = file
  BY DEF inputs
<1>2. /\ Whole' <=> Whole
      /\ \A k : Complete(k)' <=> Complete(k)
      /\ expected_hash' = expected_hash
      /\ LeafHashes' = LeafHashes
  BY <1>1 DEF Whole, Complete, Written, expected_hash, LeafHashes
<1>3. Hashes' = Hashes
  BY <1>2 DEF Hashes
<1>. QED BY <1>1, <1>2, <1>3 DEF FilesTyped

\* The nodes found hold chunks of their own, so they are no more than those.
LEMMA FoundFew ==
  ASSUME NEW F \in SUBSET Node,
         \A k, m \in F : k # m => Below(k) \cap Below(m) = {}
  PROVE  IsFiniteSet(F) /\ Cardinality(F) <= nchunks
<1> DEFINE f == [k \in F |-> CHOOSE i \in Chunk : i \in Below(k)]
<1>1. \A k \in F : f[k] \in Chunk /\ f[k] \in Below(k)
  <2> SUFFICES ASSUME NEW k \in F
               PROVE  f[k] \in Chunk /\ f[k] \in Below(k)
    OBVIOUS
  <2>1. \E i \in Chunk : i \in Below(k)
    BY BelowSome, BelowIs
  <2>. QED BY <2>1
<1>2. f \in [F -> Chunk]
  BY <1>1
<1>3. \A k, m \in F : f[k] = f[m] => k = m
  BY <1>1
<1>4. f \in Injection(F, Chunk)
  <2> HIDE DEF f
  <2>. QED BY <1>2, <1>3 DEF Injection, IsInjective
<1>5. IsFiniteSet(Chunk) /\ Cardinality(Chunk) = nchunks
  <2>1. IsFiniteSet(0 .. nchunks - 1) /\ Cardinality(0 .. nchunks - 1) = nchunks
    BY Shape, FS_Interval
  <2>. QED BY <2>1, Shape
<1> HIDE DEF f
<1>. QED BY <1>4, <1>5, FS_Injection

\* A step that at most crashes the process.
LEMMA StandsStill ==
  ASSUME MerkleInv, process' \in {"running", "crashed"},
         UNCHANGED <<step, inputs, computed, queue, out, found, asked>>
  PROVE  MerkleInv'
<1>1. truth' = truth /\ file' = file
  BY DEF inputs
<1>2. TypeOK' /\ FilesTyped'
  BY <1>1 DEF MerkleInv, TypeOK, FilesTyped
<1>3. Built' /\ Answering'
  BY SameFiles DEF MerkleInv, Built, Answering, InMin
<1>4. Counted' /\ Apart' /\ Covered' /\ Topmost'
  BY SameFiles DEF MerkleInv, Counted, Apart, Covered, Topmost, InMin
<1>5. OutputFits'
  BY DEF MerkleInv, OutputFits
<1>6. ChunkCheckExact'
  BY <1>1 DEF MerkleInv, ChunkCheckExact, Done, Picked, Complete, Written
<1>. QED BY <1>2, <1>3, <1>4, <1>5, <1>6 DEF MerkleInv

LEMMA InitiliseTreeStep ==
  ASSUME MerkleInv, InitiliseTree
  PROVE  MerkleInv'
<1>1. /\ UNCHANGED inputs /\ step = "load" /\ step' = "ready"
      /\ queue' = queue /\ out' = out /\ found' = found /\ asked' = asked
      /\ process' \in {"running", "crashed"}
      /\ computed' = Joined(Levels(LeafHashes))
  BY DEF InitiliseTree, At
<1>2. asked[1] = "nothing" /\ out = <<>> /\ found = {} /\ queue = <<>>
  BY <1>1 DEF MerkleInv, Answering, InMin
<1>3. FilesTyped' /\ LeafHashes' = LeafHashes
  BY <1>1, SameFiles DEF MerkleInv
<1>4. TypeOK'
  <2>1. DOMAIN computed' = Node
    BY <1>1 DEF Joined
  <2>. QED BY <1>1, <1>2, <1>3, <2>1 DEF MerkleInv, TypeOK, FilesTyped
<1>5. Built'
  BY <1>1, <1>3 DEF Built
<1>6. Answering'
  BY <1>1, <1>2 DEF MerkleInv, Answering, InMin
<1>7. Counted' /\ Covered' /\ ChunkCheckExact'
  BY <1>1, <1>2 DEF InMin, Counted, Covered, ChunkCheckExact, Done
<1>8. Len(queue') = 0 /\ Len(out') = 0
  BY <1>1, <1>2
<1>9. Apart' /\ Topmost'
  BY <1>1, <1>2, <1>8 DEF Apart, Topmost
<1>10. OutputFits'
  BY <1>1, <1>2, <1>8, Shape DEF OutputFits
<1>. QED BY <1>3, <1>4, <1>5, <1>6, <1>7, <1>9, <1>10 DEF MerkleInv

\* A query that is answered at once, with a list that fits.
LEMMA AnswerStep ==
  ASSUME MerkleInv, NEW query, NEW hashes, Answer(query, hashes),
         query[1] \in {"all_hashes", "chunk_check", "hashes_of"},
         Len(hashes) <= IF query[1] = "all_hashes" THEN nhashes + nchunks
                                                   ELSE nchunks,
         query[1] = "chunk_check" =>
           hashes = Picked([i \in Chunk |-> Complete(nhashes + i)])
  PROVE  MerkleInv'
<1>1. /\ UNCHANGED inputs /\ step = "ready" /\ step' = "done"
      /\ queue' = queue /\ out' = hashes /\ found' = found /\ asked' = query
      /\ process' = process /\ computed' = computed
  BY DEF Answer, At
<1>2. asked[1] = "nothing" /\ out = <<>> /\ found = {} /\ queue = <<>>
  BY <1>1 DEF MerkleInv, Answering, InMin
<1>3. asked'[1] = query[1] /\ query[1] # "min_hashes"
  BY <1>1
<1>4. FilesTyped' /\ LeafHashes' = LeafHashes
  BY <1>1, SameFiles DEF MerkleInv
<1>5. TypeOK'
  BY <1>1, <1>2, <1>3, <1>4 DEF MerkleInv, TypeOK, FilesTyped
<1>6. Built'
  BY <1>1, <1>4 DEF MerkleInv, Built
<1>7. Answering'
  BY <1>1, <1>2, <1>3 DEF Answering, InMin
<1>8. Counted' /\ Covered'
  BY <1>1, <1>3 DEF InMin, Counted, Covered
<1>9. Len(queue') = 0
  BY <1>1, <1>2
<1>10. Apart' /\ Topmost'
  BY <1>1, <1>2, <1>9 DEF Apart, Topmost
<1>11. OutputFits'
  BY <1>1, <1>3 DEF OutputFits
<1>12. ChunkCheckExact'
  <2> SUFFICES ASSUME query[1] = "chunk_check"
               PROVE  out' = Picked([i \in Chunk |-> Complete(nhashes + i)])'
    BY <1>3 DEF ChunkCheckExact, Done
  <2>1. truth' = truth /\ file' = file
    BY <1>1 DEF inputs
  <2>2. Picked([i \in Chunk |-> Complete(nhashes + i)])'
          = Picked([i \in Chunk |-> Complete(nhashes + i)])
    BY <2>1 DEF Picked, Complete, Written
  <2>. QED BY <1>1, <2>2
<1>. QED BY <1>4, <1>5, <1>6, <1>7, <1>8, <1>10, <1>11, <1>12 DEF MerkleInv

LEMMA QueryStep ==
  ASSUME MerkleInv, Query
  PROVE  MerkleInv'
<1>0. FilesTyped
  BY DEF MerkleInv
<1>1. CASE AllHashes
  <2> DEFINE all == [n \in 1 .. nhashes + nchunks |-> Joined(Levels(truth))[n - 1]]
             query == <<"all_hashes", NoHash>>
  <2>1. Answer(query, all)
    BY <1>1 DEF AllHashes
  <2>2. query[1] = "all_hashes"
    OBVIOUS
  <2>3. Len(all) = nhashes + nchunks
    <3>1. nhashes + nchunks \in Nat
      BY Shape
    <3>. QED BY <3>1
  <2>4. Len(all) <= nhashes + nchunks
    BY <2>3, Shape
  <2> HIDE DEF all, query
  <2>. QED BY <2>1, <2>2, <2>4, AnswerStep
<1>2. CASE ChunkCheck
  <2> DEFINE test == [i \in Chunk |-> truth[i] = computed[nhashes + i]]
             query == <<"chunk_check", NoHash>>
  <2>1. Answer(query, Picked(test))
    BY <1>2 DEF ChunkCheck
  <2>2. query[1] = "chunk_check"
    OBVIOUS
  <2>3. computed = Joined(Levels(LeafHashes))
    BY <1>2 DEF MerkleInv, Built, ChunkCheck, Answer, At
  <2>4. ASSUME NEW i \in Chunk
        PROVE  (truth[i] = computed[nhashes + i]) = Complete(nhashes + i)
    <3>1. computed[nhashes + i] = LeafHashes[i]
      BY <2>3, JoinedLeaf
    <3>2. Complete(nhashes + i) <=> truth[i] = computed[nhashes + i]
      BY <1>0, <3>1, CompleteLeaf
    <3>3. Complete(nhashes + i) \in BOOLEAN
      BY DEF Complete
    <3>. QED BY <3>2, <3>3
  <2>5. test = [i \in Chunk |-> Complete(nhashes + i)]
    BY <2>4
  <2>6. Len(Picked(test)) <= nchunks
    BY <1>0, PickedLength
  <2> HIDE DEF test, query
  <2>. QED BY <2>1, <2>2, <2>5, <2>6, AnswerStep
<1>3. ASSUME NEW h, HashesOf(h) PROVE MerkleInv'
  <2> DEFINE matches == {k \in Node : expected_hash[k] = h}
             first == CHOOSE k \in matches : \A m \in matches : k <= m
             hashes == IF matches = {} THEN <<>> ELSE Inorder[first]
             query == <<"hashes_of", h>>
  <2>1. Answer(query, hashes)
    BY <1>3 DEF HashesOf
  <2>2. query[1] = "hashes_of"
    OBVIOUS
  <2>3. Len(hashes) <= nchunks
    <3>1. CASE matches = {}
      BY <3>1, Shape
    <3>2. CASE matches # {}
      <4>1. matches \in SUBSET Nat
        BY Shape
      <4>2. first \in matches
        <5>1. \E k \in matches : \A m \in matches : k <= m
          <6> HIDE DEF matches
          <6>. QED BY <3>2, <4>1, Least
        <5> HIDE DEF matches
        <5>. QED BY <5>1
      <4>3. first \in Node
        BY <4>2
      <4> HIDE DEF first
      <4>. QED BY <3>2, <4>3, InorderLength
    <3>. QED BY <3>1, <3>2
  <2> HIDE DEF hashes, query
  <2>. QED BY <2>1, <2>2, <2>3, AnswerStep
<1>4. CASE MinStart
  <2>1. /\ UNCHANGED inputs /\ step = "ready" /\ step' = "min"
        /\ queue' = Append(<<>>, 0) /\ out' = out /\ found' = found
        /\ asked' = <<"min_hashes", NoHash>>
        /\ process' = process /\ computed' = computed
    BY <1>4 DEF MinStart, At, enqueue
  <2>2. asked[1] = "nothing" /\ out = <<>> /\ found = {} /\ queue = <<>>
    BY <2>1 DEF MerkleInv, Answering, InMin
  <2>3. /\ asked'[1] = "min_hashes" /\ out' = <<>> /\ found' = {}
        /\ queue' = <<0>>
    BY <2>1, <2>2
  <2>4. Len(queue') = 1 /\ queue'[1] = 0 /\ Len(out') = 0
    BY <2>3
  <2>5. 0 \in Node /\ Below(0) = Chunk /\ 0 # Null
    BY BelowRoot, MerkleTreeAssumption
  <2>6. FilesTyped' /\ LeafHashes' = LeafHashes
    BY <2>1, SameFiles DEF MerkleInv
  <2>7. TypeOK'
    BY <2>1, <2>3, <2>5, <2>6 DEF MerkleInv, TypeOK, FilesTyped
  <2>8. Built'
    BY <2>1, <2>6 DEF MerkleInv, Built
  <2>9. Answering'
    BY <2>1, <2>3 DEF Answering, InMin
  <2>10. Counted'
    BY <2>3, <2>4, FS_EmptySet DEF Counted
  <2>11. Apart'
    BY <2>3, <2>4 DEF Apart
  <2>12. Covered'
    <3>1. Chunks(0) = Chunk
      BY <2>5 DEF Chunks
    <3>. QED BY <2>4, <3>1 DEF Covered
  <2>13. Topmost'
    BY <2>3, <2>4, <2>5 DEF Topmost
  <2>14. OutputFits' /\ ChunkCheckExact'
    BY <2>1, <2>3, <2>4, Shape DEF OutputFits, ChunkCheckExact, Done
  <2>. QED BY <2>6, <2>7, <2>8, <2>9, <2>10, <2>11, <2>12, <2>13, <2>14
           DEF MerkleInv
<1>. QED BY <1>1, <1>2, <1>3, <1>4 DEF Query

-----------------------------------------------------------------------------
(* The loop of -min_hashes.                                                *)

LEMMA Dequeued ==
  ASSUME queue \in Seq(Node \cup {Null}), queue # <<>>, Head(queue) # Null
  PROVE  /\ Head(queue) \in Node /\ Head(queue) = queue[1] /\ 1 \in 1 .. Len(queue)
         /\ dequeue(queue) \in Seq(Node \cup {Null})
         /\ Len(dequeue(queue)) \in Nat
         /\ Len(queue) = Len(dequeue(queue)) + 1
         /\ \A n \in 1 .. Len(dequeue(queue)) :
              n + 1 \in 1 .. Len(queue) /\ dequeue(queue)[n] = queue[n + 1]
BY DEF dequeue

\* What every turn of the loop starts from and leaves alone.
LEMMA Turn ==
  ASSUME MerkleInv, MinVisit
  PROVE  /\ UNCHANGED <<process, step, truth, file, computed, asked>>
         /\ step = "min" /\ asked[1] = "min_hashes"
         /\ queue \in Seq(Node \cup {Null}) /\ queue # <<>> /\ Head(queue) # Null
         /\ found \subseteq Node /\ out \in Seq(Hashes)
         /\ IsFiniteSet(found) /\ Len(out) = Cardinality(found)
         /\ FilesTyped' /\ Built' /\ ChunkCheckExact'
         /\ Hashes' = Hashes
         /\ Whole' <=> Whole
         /\ \A k : Complete(k)' <=> Complete(k)
         /\ Whole => \A k \in Node : Matching(k) <=> Complete(k)
<1>1. /\ UNCHANGED <<process, step, truth, file, computed, asked>>
      /\ step = "min" /\ queue # <<>> /\ Head(queue) # Null
      /\ UNCHANGED inputs
  BY DEF MinVisit, At, inputs
<1>2. asked[1] = "min_hashes"
  BY <1>1 DEF MerkleInv, Answering, InMin
<1>3. /\ queue \in Seq(Node \cup {Null}) /\ found \subseteq Node
      /\ out \in Seq(Hashes)
      /\ IsFiniteSet(found) /\ Len(out) = Cardinality(found)
  BY <1>2 DEF MerkleInv, TypeOK, Counted, InMin
<1>4. computed = Joined(Levels(LeafHashes)) /\ FilesTyped
  BY <1>1 DEF MerkleInv, Built
<1>5. FilesTyped' /\ Built'
  BY <1>1, <1>4, SameFiles DEF Built
<1>6. ChunkCheckExact'
  BY <1>1 DEF ChunkCheckExact, Done
<1>7. Whole => \A k \in Node : Matching(k) <=> Complete(k)
  BY <1>4, MatchingIsComplete
<1>. QED BY <1>1, <1>2, <1>3, <1>5, <1>6, <1>7, SameFiles

\* What a turn must still show.
LEMMA TurnEnds ==
  ASSUME MerkleInv, MinVisit,
         queue' \in Seq(Node \cup {Null}), found' \subseteq Node,
         Counted', Apart', Covered', Topmost'
  PROVE  MerkleInv'
<1>1. /\ UNCHANGED <<process, step, truth, file, computed, asked>>
      /\ step = "min" /\ asked[1] = "min_hashes"
      /\ FilesTyped' /\ Built' /\ ChunkCheckExact'
  BY Turn
<1>2. TypeOK'
  BY <1>1 DEF MerkleInv, TypeOK
<1>3. Answering'
  BY <1>1 DEF Answering, InMin
<1>4. OutputFits'
  <2>1. Cardinality(found') <= nchunks
    <3>1. \A k, m \in found' : k # m => Below(k) \cap Below(m) = {}
      BY DEF Apart
    <3>. QED BY <3>1, FoundFew
  <2>. QED BY <1>1, <2>1 DEF OutputFits, Counted, InMin
<1>. QED BY <1>1, <1>2, <1>3, <1>4 DEF MerkleInv

\* A node with the hash expected is answered.
LEMMA AnswerNode ==
  ASSUME MerkleInv, MinVisit, Matching(Head(queue)),
         out' = Append(out, expected_hash[Head(queue)]),
         found' = found \cup {Head(queue)}, queue' = dequeue(queue)
  PROVE  MerkleInv'
<1> DEFINE k == Head(queue)
           rest == dequeue(queue)
<1>1. /\ k \in Node /\ k = queue[1] /\ 1 \in 1 .. Len(queue)
      /\ rest \in Seq(Node \cup {Null}) /\ Len(rest) \in Nat
      /\ \A n \in 1 .. Len(rest) :
           n + 1 \in 1 .. Len(queue) /\ rest[n] = queue[n + 1]
  BY Turn, Dequeued
<1>2. \A n \in 1 .. Len(queue) : n = 1 \/ (n - 1 \in 1 .. Len(rest)
                                           /\ rest[n - 1] = queue[n])
  <2>1. Len(queue) = Len(rest) + 1
    BY Turn, Dequeued
  <2> SUFFICES ASSUME NEW n \in 1 .. Len(queue), n # 1
               PROVE  n - 1 \in 1 .. Len(rest) /\ rest[n - 1] = queue[n]
    OBVIOUS
  <2>2. n - 1 \in 1 .. Len(rest) /\ (n - 1) + 1 = n
    BY <1>1, <2>1
  <2>. QED BY <1>1, <2>2
<1>3. Chunks(k) = Below(k)
  BY <1>1, MerkleTreeAssumption DEF Chunks
<1>4. \A m \in found : Below(m) \cap Below(k) = {}
  BY <1>1, <1>3 DEF MerkleInv, Apart
<1>5. k \notin found
  BY <1>1, <1>4, BelowSome
<1>6. \A n \in 1 .. Len(rest) : Below(k) \cap Chunks(rest[n]) = {}
  <2> SUFFICES ASSUME NEW n \in 1 .. Len(rest)
               PROVE  Below(k) \cap Chunks(rest[n]) = {}
    OBVIOUS
  <2>1. n + 1 \in 1 .. Len(queue) /\ n + 1 # 1 /\ rest[n] = queue[n + 1]
    BY <1>1
  <2>. QED BY <1>1, <1>3, <2>1 DEF MerkleInv, Apart
<1> HIDE DEF k, rest
<1>7. queue' = rest /\ found' = found \cup {k} /\ out' = Append(out, expected_hash[k])
  BY DEF k, rest
<1>8. Counted'
  <2>1. expected_hash[k] \in Hashes
    BY <1>1 DEF Hashes
  <2>2. out' \in Seq(Hashes) /\ Len(out') = Len(out) + 1
    BY <1>7, <2>1, Turn
  <2>3. IsFiniteSet(found') /\ Cardinality(found') = Cardinality(found) + 1
    BY <1>5, <1>7, FS_AddElement, Turn
  <2>. QED BY <2>2, <2>3, Turn DEF Counted
<1>9. Apart'
  <2>1. \A m, p \in found' : m # p => Below(m) \cap Below(p) = {}
    BY <1>4, <1>7 DEF MerkleInv, Apart
  <2>2. ASSUME NEW n \in 1 .. Len(rest), NEW p \in 1 .. Len(rest), n # p
        PROVE  Chunks(rest[n]) \cap Chunks(rest[p]) = {}
    <3>1. n + 1 # p + 1 /\ n + 1 \in 1 .. Len(queue) /\ p + 1 \in 1 .. Len(queue)
      BY <1>1, <2>2
    <3>. QED BY <1>1, <3>1 DEF MerkleInv, Apart
  <2>3. \A m \in found' : \A n \in 1 .. Len(rest) : Below(m) \cap Chunks(rest[n]) = {}
    BY <1>1, <1>6, <1>7 DEF MerkleInv, Apart
  <2>. QED BY <1>7, <2>1, <2>2, <2>3 DEF Apart
<1>10. Covered'
  <2> SUFFICES ASSUME Whole, NEW i \in Chunk, Complete(nhashes + i)
               PROVE  \/ \E m \in found' : i \in Below(m)
                      \/ \E n \in 1 .. Len(rest) : i \in Chunks(rest[n])
    BY <1>7, Turn DEF Covered
  <2>1. CASE \E m \in found : i \in Below(m)
    BY <1>7, <2>1
  <2>2. CASE \E n \in 1 .. Len(queue) : i \in Chunks(queue[n])
    BY <1>1, <1>2, <1>3, <1>7, <2>2
  <2>. QED BY <2>1, <2>2, Turn DEF MerkleInv, Covered, InMin
<1>11. Topmost'
  <2> SUFFICES ASSUME Whole
               PROVE  /\ \A m \in found' : Complete(m) /\ (m = 0 \/ ~Complete(Parent(m)))
                      /\ \A n \in 1 .. Len(rest) :
                           rest[n] \in Node /\ (rest[n] = 0 \/ ~Complete(Parent(rest[n])))
    BY <1>7, Turn DEF Topmost
  <2>1. Complete(k)
    BY <1>1, Turn DEF k
  <2>. QED BY <1>1, <1>7, <2>1 DEF MerkleInv, Topmost
<1>. QED BY <1>1, <1>7, <1>8, <1>9, <1>10, <1>11, Turn, TurnEnds

\* A leaf that holds other data is dropped.
LEMMA DropLeaf ==
  ASSUME MerkleInv, MinVisit, ~Matching(Head(queue)), IsLeaf(Head(queue)),
         out' = out, found' = found, queue' = dequeue(queue)
  PROVE  MerkleInv'
<1> DEFINE k == Head(queue)
           rest == dequeue(queue)
<1>1. /\ k \in Node /\ k = queue[1] /\ 1 \in 1 .. Len(queue)
      /\ rest \in Seq(Node \cup {Null}) /\ Len(rest) \in Nat
      /\ Len(queue) = Len(rest) + 1
      /\ \A n \in 1 .. Len(rest) :
           n + 1 \in 1 .. Len(queue) /\ rest[n] = queue[n + 1]
  BY Turn, Dequeued
<1>2. k >= nhashes
  BY DEF IsLeaf
<1>3. ~Matching(k)
  OBVIOUS
<1>4. k - nhashes \in Chunk /\ nhashes + (k - nhashes) = k
  BY <1>1, <1>2, Shape
<1>5. Chunks(k) = {k - nhashes}
  <2>1. Below(k) = {k - nhashes}
    BY <1>4, BelowLeaf
  <2>2. k # Null
    BY <1>1, MerkleTreeAssumption
  <2>. QED BY <2>1, <2>2 DEF Chunks
<1>6. queue' = rest
  OBVIOUS
<1> HIDE DEF k, rest
<1>7. \A n \in 1 .. Len(queue) : n = 1 \/ (n - 1 \in 1 .. Len(rest)
                                           /\ rest[n - 1] = queue[n])
  <2> SUFFICES ASSUME NEW n \in 1 .. Len(queue), n # 1
               PROVE  n - 1 \in 1 .. Len(rest) /\ rest[n - 1] = queue[n]
    OBVIOUS
  <2>1. n - 1 \in 1 .. Len(rest) /\ (n - 1) + 1 = n
    BY <1>1
  <2>. QED BY <1>1, <2>1
<1>8. Counted'
  BY Turn DEF Counted
<1>9. Apart'
  <2>1. ASSUME NEW n \in 1 .. Len(rest), NEW p \in 1 .. Len(rest), n # p
        PROVE  Chunks(rest[n]) \cap Chunks(rest[p]) = {}
    <3>1. n + 1 # p + 1 /\ n + 1 \in 1 .. Len(queue) /\ p + 1 \in 1 .. Len(queue)
      BY <1>1, <2>1
    <3>. QED BY <1>1, <3>1 DEF MerkleInv, Apart
  <2>2. \A m \in found : \A n \in 1 .. Len(rest) : Below(m) \cap Chunks(rest[n]) = {}
    BY <1>1 DEF MerkleInv, Apart
  <2>3. \A m, p \in found : m # p => Below(m) \cap Below(p) = {}
    BY DEF MerkleInv, Apart
  <2>. QED BY <1>6, <2>1, <2>2, <2>3 DEF Apart
<1>10. Covered'
  <2> SUFFICES ASSUME Whole, NEW i \in Chunk, Complete(nhashes + i)
               PROVE  \/ \E m \in found : i \in Below(m)
                      \/ \E n \in 1 .. Len(rest) : i \in Chunks(rest[n])
    BY <1>6, Turn DEF Covered
  <2>1. i # k - nhashes
    BY <1>1, <1>3, <1>4, Turn
  <2>2. CASE \E n \in 1 .. Len(queue) : i \in Chunks(queue[n])
    BY <1>1, <1>5, <1>7, <2>1, <2>2
  <2>. QED BY <2>2, Turn DEF MerkleInv, Covered, InMin
<1>11. Topmost'
  <2> SUFFICES ASSUME Whole
               PROVE  /\ \A m \in found : Complete(m) /\ (m = 0 \/ ~Complete(Parent(m)))
                      /\ \A n \in 1 .. Len(rest) :
                           rest[n] \in Node /\ (rest[n] = 0 \/ ~Complete(Parent(rest[n])))
    BY <1>6, Turn DEF Topmost
  <2>. QED BY <1>1 DEF MerkleInv, Topmost
<1>. QED BY <1>1, <1>6, <1>8, <1>9, <1>10, <1>11, Turn, TurnEnds

\* Below any other node the loop goes on, to its two children.
LEMMA GoBelow ==
  ASSUME MerkleInv, MinVisit, ~Matching(Head(queue)), ~IsLeaf(Head(queue)),
         out' = out, found' = found,
         NEW a, NEW b,
         a = IF Head(queue) < nhashes THEN left(Head(queue)) ELSE Null,
         b = IF Head(queue) < nhashes THEN right(Head(queue)) ELSE Null,
         queue' = enqueue(enqueue(dequeue(queue), a), b)
  PROVE  MerkleInv'
<1> DEFINE k == Head(queue)
           rest == dequeue(queue)
           last == Len(rest)
<1>1. /\ k \in Node /\ k = queue[1] /\ 1 \in 1 .. Len(queue)
      /\ rest \in Seq(Node \cup {Null}) /\ last \in Nat
      /\ Len(queue) = last + 1
      /\ \A n \in 1 .. last :
           n + 1 \in 1 .. Len(queue) /\ rest[n] = queue[n + 1]
  BY Turn, Dequeued
<1>2. ~Matching(k) /\ ~IsLeaf(k)
  OBVIOUS
<1>3. /\ a = IF k < nhashes THEN left(k) ELSE Null
      /\ b = IF k < nhashes THEN right(k) ELSE Null
      /\ queue' = enqueue(enqueue(rest, a), b)
  OBVIOUS
<1> HIDE DEF k, rest
<1>4. k < nhashes => /\ left(k) \in Node /\ right(k) \in Node
                     /\ Below(k) = Below(left(k)) \cup Below(right(k))
                     /\ Below(left(k)) \cap Below(right(k)) = {}
  BY <1>1, Children, BelowInner
<1>5. Null \notin Node
  BY MerkleTreeAssumption
<1>6. /\ a \in Node \cup {Null} /\ b \in Node \cup {Null}
      /\ Chunks(a) \subseteq Chunks(k) /\ Chunks(b) \subseteq Chunks(k)
      /\ Chunks(a) \cap Chunks(b) = {}
      /\ k < nhashes => Chunks(k) = Chunks(a) \cup Chunks(b)
  BY <1>1, <1>3, <1>4, <1>5 DEF Chunks
<1>7. /\ queue' \in Seq(Node \cup {Null}) /\ Len(queue') = last + 2
      /\ \A n \in 1 .. last : queue'[n] = rest[n]
      /\ queue'[last + 1] = a /\ queue'[last + 2] = b
  <2> DEFINE S == Node \cup {Null}
             r == queue'
  <2>1. rest \in Seq(S) /\ a \in S /\ b \in S /\ r = enqueue(enqueue(rest, a), b)
    BY <1>1, <1>3, <1>6
  <2> HIDE DEF S, r
  <2>2. /\ r \in Seq(S) /\ Len(r) = Len(rest) + 2
        /\ \A n \in 1 .. Len(rest) : r[n] = rest[n]
        /\ r[Len(rest) + 1] = a /\ r[Len(rest) + 2] = b
    BY <2>1 DEF enqueue
  <2>. QED BY <2>2 DEF S, r
<1> HIDE DEF last
<1>8. \A n \in 1 .. Len(queue') : n \in 1 .. last \/ n = last + 1 \/ n = last + 2
  BY <1>1, <1>7
\* Each entry is what it was, one place further back, or a child of k.
<1>9. ASSUME NEW n \in 1 .. Len(queue')
      PROVE  \/ n \in 1 .. last /\ n + 1 \in 1 .. Len(queue) /\ n + 1 # 1
                /\ queue'[n] = queue[n + 1]
             \/ n = last + 1 /\ queue'[n] = a
             \/ n = last + 2 /\ queue'[n] = b
  BY <1>1, <1>7, <1>8
<1>10. Counted'
  BY Turn DEF Counted
<1>11. Apart'
  <2>1. ASSUME NEW n \in 1 .. last, NEW p \in 1 .. last, n # p
        PROVE  Chunks(queue'[n]) \cap Chunks(queue'[p]) = {}
    <3>1. /\ n + 1 # p + 1
          /\ n + 1 \in 1 .. Len(queue) /\ p + 1 \in 1 .. Len(queue)
          /\ queue'[n] = queue[n + 1] /\ queue'[p] = queue[p + 1]
      BY <1>1, <1>7, <2>1
    <3>. QED BY <3>1 DEF MerkleInv, Apart
  <2>2. ASSUME NEW n \in 1 .. last
        PROVE  Chunks(queue'[n]) \cap Chunks(k) = {}
    <3>1. n + 1 # 1 /\ n + 1 \in 1 .. Len(queue) /\ queue'[n] = queue[n + 1]
      BY <1>1, <1>7
    <3>. QED BY <1>1, <3>1 DEF MerkleInv, Apart
  <2>3. ASSUME NEW n \in 1 .. Len(queue'), NEW p \in 1 .. Len(queue'), n # p
        PROVE  Chunks(queue'[n]) \cap Chunks(queue'[p]) = {}
    <3>1. CASE n \in 1 .. last /\ p \in 1 .. last
      BY <2>1, <2>3, <3>1
    <3>2. CASE n \in 1 .. last /\ p \notin 1 .. last
      BY <1>6, <1>9, <2>2, <3>2
    <3>3. CASE n \notin 1 .. last /\ p \in 1 .. last
      BY <1>6, <1>9, <2>2, <3>3
    <3>4. CASE n \notin 1 .. last /\ p \notin 1 .. last
      BY <1>6, <1>9, <2>3, <3>4
    <3>. QED BY <3>1, <3>2, <3>3, <3>4
  <2>4. ASSUME NEW m \in found, NEW n \in 1 .. Len(queue')
        PROVE  Below(m) \cap Chunks(queue'[n]) = {}
    <3>1. \A p \in 1 .. Len(queue) : Below(m) \cap Chunks(queue[p]) = {}
      BY DEF MerkleInv, Apart
    <3>2. Below(m) \cap Chunks(k) = {}
      BY <1>1, <3>1
    <3>. QED BY <1>6, <1>9, <3>1, <3>2
  <2>5. \A m, p \in found : m # p => Below(m) \cap Below(p) = {}
    BY DEF MerkleInv, Apart
  <2>. QED BY <2>3, <2>4, <2>5 DEF Apart
\* Over a whole file only leaves have no children.
<1>12. Whole => k < nhashes
  <2> SUFFICES ASSUME Whole, k >= nhashes PROVE FALSE
    BY <1>1, Shape
  <2>1. nchunks - 1 < Len(file) /\ Len(file) \in Nat
    BY DEF Whole, Written, MerkleInv, FilesTyped
  <2>2. k - nhashes < Len(file)
    BY <1>1, <2>1, Shape
  <2>. QED BY <1>2, <2>2 DEF IsLeaf, Written
<1>13. \A n \in 1 .. last : n \in 1 .. Len(queue')
  BY <1>1, <1>7
<1>14. last + 1 \in 1 .. Len(queue') /\ last + 2 \in 1 .. Len(queue')
  BY <1>1, <1>7
<1>15. \A n \in 1 .. Len(queue) : n = 1 \/ (n - 1 \in 1 .. last
                                            /\ queue'[n - 1] = queue[n])
  <2> SUFFICES ASSUME NEW n \in 1 .. Len(queue), n # 1
               PROVE  n - 1 \in 1 .. last /\ queue'[n - 1] = queue[n]
    OBVIOUS
  <2>1. n - 1 \in 1 .. last /\ (n - 1) + 1 = n
    BY <1>1
  <2>. QED BY <1>1, <1>7, <2>1
<1>16. Covered'
  <2> SUFFICES ASSUME Whole, NEW i \in Chunk, Complete(nhashes + i)
               PROVE  \/ \E m \in found : i \in Below(m)
                      \/ \E n \in 1 .. Len(queue') : i \in Chunks(queue'[n])
    BY Turn DEF Covered
  <2>1. CASE \E n \in 1 .. Len(queue) : i \in Chunks(queue[n])
    <3>1. PICK n \in 1 .. Len(queue) : i \in Chunks(queue[n])
      BY <2>1
    <3>2. CASE n = 1
      BY <1>1, <1>6, <1>7, <1>12, <1>14, <3>1, <3>2
    <3>3. CASE n # 1
      BY <1>13, <1>15, <3>1, <3>3
    <3>. QED BY <3>2, <3>3
  <2>. QED BY <2>1, Turn DEF MerkleInv, Covered, InMin
<1>17. Topmost'
  <2> SUFFICES ASSUME Whole
               PROVE  /\ \A m \in found : Complete(m) /\ (m = 0 \/ ~Complete(Parent(m)))
                      /\ \A n \in 1 .. Len(queue') :
                           queue'[n] \in Node
                           /\ (queue'[n] = 0 \/ ~Complete(Parent(queue'[n])))
    BY Turn DEF Topmost
  <2>1. ~Complete(k)
    BY <1>1, <1>2, Turn
  <2>2. Parent(left(k)) = k /\ Parent(right(k)) = k
    BY <1>1, ParentOfChild
  <2>3. \A m \in found : Complete(m) /\ (m = 0 \/ ~Complete(Parent(m)))
    BY DEF MerkleInv, Topmost
  <2>4. \A n \in 1 .. Len(queue) :
          queue[n] \in Node /\ (queue[n] = 0 \/ ~Complete(Parent(queue[n])))
    BY DEF MerkleInv, Topmost
  <2>5. a = left(k) /\ b = right(k) /\ a \in Node /\ b \in Node
    BY <1>3, <1>4, <1>12
  <2>. QED BY <1>9, <2>1, <2>2, <2>3, <2>4, <2>5
<1>18. found' \subseteq Node
  BY Turn
<1>. QED BY <1>7, <1>10, <1>11, <1>16, <1>17, <1>18, TurnEnds

LEMMA LoopStep ==
  ASSUME MerkleInv, Loop
  PROVE  MerkleInv'
<1>1. CASE MinVisit
  <2>1. CASE /\ Matching(Head(queue))
             /\ out' = Append(out, expected_hash[Head(queue)])
             /\ found' = found \cup {Head(queue)}
             /\ queue' = dequeue(queue)
    BY <1>1, <2>1, AnswerNode
  <2>2. CASE /\ ~Matching(Head(queue)) /\ IsLeaf(Head(queue))
             /\ queue' = dequeue(queue)
             /\ UNCHANGED <<out, found>>
    BY <1>1, <2>2, DropLeaf
  <2>3. CASE /\ ~Matching(Head(queue)) /\ ~IsLeaf(Head(queue))
             /\ queue' = enqueue(enqueue(dequeue(queue),
                    IF Head(queue) < nhashes THEN left(Head(queue)) ELSE Null),
                    IF Head(queue) < nhashes THEN right(Head(queue)) ELSE Null)
             /\ UNCHANGED <<out, found>>
    BY <1>1, <2>3, GoBelow
  <2>. QED BY <1>1, <2>1, <2>2, <2>3, Shape DEF MinVisit, left, right
<1>2. CASE MinFollowsNull
  <2>1. /\ UNCHANGED <<step, inputs, computed, queue, out, found, asked>>
        /\ process' = "crashed"
    BY <1>2 DEF MinFollowsNull
  <2>. QED BY <2>1, StandsStill
<1>3. CASE MinReturn
  <2>1. /\ UNCHANGED <<process, inputs, computed, queue, out, found, asked>>
        /\ step = "min" /\ step' = "done" /\ queue = <<>>
    BY <1>3 DEF MinReturn, At
  <2>2. asked[1] = "min_hashes"
    BY <2>1 DEF MerkleInv, Answering, InMin
  <2>3. TypeOK' /\ FilesTyped'
    BY <2>1, SameFiles DEF MerkleInv, TypeOK, inputs
  <2>4. Built'
    BY <2>1, SameFiles DEF MerkleInv, Built
  <2>5. Answering'
    BY <2>1, <2>2 DEF Answering, InMin
  <2>6. Counted' /\ Apart' /\ Covered' /\ Topmost'
    BY <2>1, SameFiles
       DEF MerkleInv, Counted, Apart, Covered, Topmost, InMin
  <2>7. OutputFits' /\ ChunkCheckExact'
    BY <2>1, <2>2 DEF MerkleInv, OutputFits, ChunkCheckExact, Done
  <2>. QED BY <2>3, <2>4, <2>5, <2>6, <2>7 DEF MerkleInv
<1>. QED BY <1>1, <1>2, <1>3 DEF Loop

LEMMA InvStep == MerkleInv /\ [Next]_vars => MerkleInv'
<1> SUFFICES ASSUME MerkleInv, [Next]_vars PROVE MerkleInv'
  OBVIOUS
<1>1. CASE InitiliseTree
  BY <1>1, InitiliseTreeStep
<1>2. CASE Query
  BY <1>2, QueryStep
<1>3. CASE Loop
  BY <1>3, LoopStep
<1>4. CASE UNCHANGED vars
  BY <1>4, StandsStill DEF vars, MerkleInv, TypeOK
<1>. QED BY <1>1, <1>2, <1>3, <1>4 DEF Next

-----------------------------------------------------------------------------
(* The theorems.                                                           *)

\* The invariant holds in every state.
THEOREM MerkleInvAlways == Spec => []MerkleInv
BY InvInit, InvStep, PTL DEF Spec

\* Every variable keeps its type.
THEOREM MerkleTypeCorrect == Spec => []TypeOK
<1>1. MerkleInv => TypeOK
  BY DEF MerkleInv
<1>. QED BY <1>1, MerkleInvAlways, PTL

\* No query writes past the entries pkgmain.c and pkgchk.c allocate for it,
\* whatever the data file holds, however many chunks the package has.
THEOREM OutputAlwaysFits == Spec => []OutputFits
<1>1. MerkleInv => OutputFits
  BY DEF MerkleInv
<1>. QED BY <1>1, MerkleInvAlways, PTL

\* -chunk_check answers just the chunks whose data the file holds.
THEOREM ChunkCheckIsExact == Spec => []ChunkCheckExact
<1>1. MerkleInv => ChunkCheckExact
  BY DEF MerkleInv
<1>. QED BY <1>1, MerkleInvAlways, PTL

\* Two topmost completed nodes over one chunk are one node.
LEMMA TopmostOnce ==
  ASSUME NEW k \in Node, NEW m \in Node, Complete(k), Complete(m),
         k = 0 \/ ~Complete(Parent(k)), m = 0 \/ ~Complete(Parent(m)),
         Below(k) \cap Below(m) # {}
  PROVE  k = m
<1> SUFFICES ASSUME k # m PROVE FALSE
  OBVIOUS
<1>1. ASSUME NEW x \in Node, NEW y \in Node, Complete(y), x # 0,
             ~Complete(Parent(x)), Below(Parent(x)) \subseteq Below(y)
      PROVE  FALSE
  <2>1. Parent(x) \in Node
    BY <1>1, Parents
  <2>. QED BY <1>1, <2>1, CompleteBelow
<1>2. \/ k # 0 /\ Below(Parent(k)) \subseteq Below(m)
      \/ m # 0 /\ Below(Parent(m)) \subseteq Below(k)
  BY Laminar
<1>. QED BY <1>1, <1>2

\* Over a data file that reaches the last chunk -min_hashes answers the
\* topmost completed nodes, each once: the smallest set of completed branches
\* that holds every completed chunk.
THEOREM MinHashesAreExact == Spec => []MinHashesExact
<1>1. MerkleInv => MinHashesExact
  <2> SUFFICES ASSUME MerkleInv, Whole, Done("min_hashes")
               PROVE  /\ found = {k \in Node :
                            Complete(k) /\ (k = 0 \/ ~Complete((k - 1) \div 2))}
                      /\ Len(out) = Cardinality(found)
    BY DEF MinHashesExact
  <2>1. InMin /\ queue = <<>> /\ found \subseteq Node
    BY DEF MerkleInv, Answering, TypeOK, Done, InMin
  <2>2. Len(out) = Cardinality(found)
    BY <2>1 DEF MerkleInv, Counted
  <2>3. \A k \in found : Complete(k) /\ (k = 0 \/ ~Complete(Parent(k)))
    BY DEF MerkleInv, Topmost
  <2>4. ASSUME NEW k \in Node, Complete(k), k = 0 \/ ~Complete(Parent(k))
        PROVE  k \in found
    <3>1. PICK i \in Chunk : i \in Below(k)
      BY BelowSome, BelowIs
    <3>2. Complete(nhashes + i)
      BY <2>4, <3>1, BelowLeaf DEF Complete
    <3>3. Len(queue) = 0
      BY <2>1
    <3>4. PICK m \in found : i \in Below(m)
      BY <2>1, <3>2, <3>3 DEF MerkleInv, Covered
    <3>5. k = m
      BY <2>1, <2>3, <2>4, <3>1, <3>4, TopmostOnce
    <3>. QED BY <3>5
  <2>5. found = {k \in Node : Complete(k) /\ (k = 0 \/ ~Complete(Parent(k)))}
    BY <2>1, <2>3, <2>4
  <2>. QED BY <2>2, <2>5 DEF Parent
<1>. QED BY <1>1, MerkleInvAlways, PTL

\* Over a data file that reaches the last chunk, in every turn each completed
\* chunk is below exactly one node that was answered or is still queued, and
\* only completed nodes are answered.
THEOREM LoopAlwaysCovers == Spec => []LoopCovers
<1>1. MerkleInv => LoopCovers
  <2> SUFFICES ASSUME MerkleInv, Whole, asked[1] = "min_hashes"
               PROVE  /\ \A i \in Chunk : Complete(nhashes + i) =>
                           Cardinality({k \in Node : i \in Below(k) /\ k \in found}) +
                           Cardinality({n \in DOMAIN queue : i \in Below(queue[n])}) = 1
                      /\ \A k \in found : Complete(k)
    BY DEF LoopCovers
  <2>1. /\ found \subseteq Node /\ DOMAIN queue = 1 .. Len(queue)
        /\ \A n \in 1 .. Len(queue) : queue[n] \in Node
        /\ \A k \in found : Complete(k)
    BY DEF MerkleInv, TypeOK, Topmost
  <2>2. \A n \in 1 .. Len(queue) : Chunks(queue[n]) = Below(queue[n])
    BY <2>1, MerkleTreeAssumption DEF Chunks
  <2> SUFFICES ASSUME NEW i \in Chunk, Complete(nhashes + i)
               PROVE  Cardinality({k \in Node : i \in Below(k) /\ k \in found}) +
                      Cardinality({n \in DOMAIN queue : i \in Below(queue[n])}) = 1
    BY <2>1
  <2> DEFINE F == {k \in Node : i \in Below(k) /\ k \in found}
             Q == {n \in DOMAIN queue : i \in Below(queue[n])}
  <2>3. \A k, m \in F : k = m
    BY DEF MerkleInv, Apart
  <2>4. \A n, p \in Q : n = p
    BY <2>1, <2>2 DEF MerkleInv, Apart
  <2>5. \A k \in F, n \in Q : FALSE
    BY <2>1, <2>2 DEF MerkleInv, Apart
  <2>6. (\E k \in F : TRUE) \/ (\E n \in Q : TRUE)
    <3>1. CASE \E k \in found : i \in Below(k)
      BY <2>1, <3>1
    <3>2. CASE \E n \in 1 .. Len(queue) : i \in Chunks(queue[n])
      BY <2>1, <2>2, <3>2
    <3>. QED BY <3>1, <3>2 DEF MerkleInv, Covered, InMin
  <2> HIDE DEF F, Q
  <2>7. ASSUME NEW S, NEW T, NEW x \in S, \A y \in S : x = y, \A y \in T : FALSE
        PROVE  Cardinality(S) = 1 /\ Cardinality(T) = 0
    <3>1. S = {x} /\ T = {}
      BY <2>7
    <3>. QED BY <3>1, FS_EmptySet, FS_Singleton
  <2>8. CASE \E k \in F : TRUE
    <3>1. Cardinality(F) = 1 /\ Cardinality(Q) = 0
      BY <2>3, <2>5, <2>7, <2>8
    <3>. QED BY <3>1 DEF F, Q
  <2>9. CASE \E n \in Q : TRUE
    <3>1. Cardinality(Q) = 1 /\ Cardinality(F) = 0
      BY <2>4, <2>5, <2>7, <2>9
    <3>. QED BY <3>1 DEF F, Q
  <2>. QED BY <2>6, <2>8, <2>9
<1>. QED BY <1>1, MerkleInvAlways, PTL

\* Over a data file that reaches the last chunk -hashes_of answers the chunks
\* below the node asked for, also when equal data give several nodes that
\* hash, if no chunk's hash is that of a pair.
THEOREM HashesOfIsExact == NoPairIsABlock => (Spec => []HashesOfExact)
<1> SUFFICES ASSUME NoPairIsABlock PROVE Spec => []HashesOfExact
  OBVIOUS
<1>1. Init => HashesOfExact
  BY DEF Init, HashesOfExact, Done
<1>2. MerkleInv /\ HashesOfExact /\ [Next]_vars => HashesOfExact'
  <2> SUFFICES ASSUME MerkleInv, HashesOfExact, [Next]_vars,
                      Whole', Done("hashes_of")',
                      NEW k \in Node, Described'[k] = asked'[2]
               PROVE  out' = Picked([i \in Chunk |-> i \in Below(k)])'
    BY DEF HashesOfExact
  <2>1. truth' = truth /\ file' = file
    BY DEF Next, InitiliseTree, Query, AllHashes, ChunkCheck, HashesOf, Answer,
           MinStart, Loop, MinVisit, MinFollowsNull, MinReturn, vars, inputs
  <2>2. /\ Whole /\ Described' = Described
        /\ Picked([i \in Chunk |-> i \in Below(k)])'
             = Picked([i \in Chunk |-> i \in Below(k)])
    BY <2>1 DEF Whole, Written, Described, Picked
  <2>3. CASE step = "done"
    <3>1. out' = out /\ asked' = asked /\ step' = step
      BY <2>3 DEF Next, InitiliseTree, Query, AllHashes, ChunkCheck, HashesOf,
                  Answer, MinStart, Loop, MinVisit, MinFollowsNull, MinReturn,
                  vars, At
    <3>. QED BY <2>2, <3>1 DEF HashesOfExact, Done
  <2>4. CASE step # "done"
    <3>1. PICK h : HashesOf(h)
      <4>1. step' = "done" /\ asked'[1] = "hashes_of"
        BY DEF Done
      <4>2. ~InitiliseTree /\ ~MinStart /\ ~UNCHANGED vars
        BY <2>4, <4>1 DEF InitiliseTree, MinStart, vars
      <4>3. ~AllHashes /\ ~ChunkCheck
        BY <4>1 DEF AllHashes, ChunkCheck, Answer
      <4>4. ~Loop
        <5> SUFFICES ASSUME Loop PROVE FALSE
          OBVIOUS
        <5>1. asked' = asked /\ step = "min"
          BY DEF Loop, MinVisit, MinFollowsNull, MinReturn, At
        <5>. QED BY <4>1, <5>1 DEF MerkleInv, Answering, InMin
      <4>. QED BY <4>2, <4>3, <4>4 DEF Next, Query
    <3> DEFINE matches == {x \in Node : expected_hash[x] = h}
               first == CHOOSE x \in matches : \A m \in matches : x <= m
    <3>2. /\ asked'[2] = h
          /\ out' = IF matches = {} THEN <<>> ELSE Inorder[first]
      BY <3>1 DEF HashesOf, Answer
    <3>3. Described[k] = h
      BY <2>2, <3>2
    <3>4. k \in matches
      BY <2>2, <3>3, Expected
    <3>5. matches \in SUBSET Nat
      BY Shape
    <3>6. first \in matches
      <4>1. \E x \in matches : \A m \in matches : x <= m
        <5> HIDE DEF matches
        <5>. QED BY <3>4, <3>5, Least
      <4> HIDE DEF matches
      <4>. QED BY <4>1
    <3>7. first \in Node /\ Described[first] = h
      BY <2>2, <3>6, Expected
    <3> HIDE DEF first
    <3>8. Inorder[first] = Inorder[k]
      BY <2>2, <3>3, <3>7, SameHashSameLeaves DEF MerkleInv
    <3>9. Inorder[k] = Picked([i \in Chunk |-> i \in Below(k)])
      BY <2>2, InorderRun DEF MerkleInv
    <3>. QED BY <2>2, <3>2, <3>4, <3>8, <3>9
  <2>. QED BY <2>3, <2>4
<1>. QED BY <1>1, <1>2, MerkleInvAlways, PTL DEF Spec
=============================================================================
