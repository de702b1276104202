--------------------------- MODULE PackagesProofs ---------------------------
(***************************************************************************)
(* The package list for any packages, data files and queries: the status   *)
(* of a package is that of the file its tree was built over, nothing is    *)
(* lost but first trees that were replaced, and a complete file is only    *)
(* damaged by a package of the same name and another size.                 *)
(***************************************************************************)
EXTENDS Packages, TLAPS

DiskTyped == disk \in [Path -> Seq(Block)]

\* Objects are numbered in the order in which bpkg_load returns them: what is
\* being added is the last, and file_checker has not opened a path for it yet.
Numbered ==
  /\ \A k \in DOMAIN list : list[k].id <= made
  /\ \A p \in Path : checked[p] <= made
  /\ new # NoPackage =>
       /\ new.id = made
       /\ \A k \in DOMAIN list : list[k].id < made
       /\ cli = "resize" => \A p \in Path : checked[p] < made

\* What ADDPACKAGE is building owns its object and the last tree that
\* initilise_tree has stored in it, if there is one; the second tree is built
\* last.
Building ==
  /\ \A n \in rebuilt : n <= made
  /\ new # NoPackage =>
       /\ <<new.id, "object">> \in heap
       /\ IF new.held = "none" THEN new.tree = NoTree
          ELSE new.tree # NoTree /\ <<new.id, new.held>> \in heap
       /\ cli \in {"resize", "build"} => new.held # "second tree"

\* The tree of what is being added is complete just when the file it was
\* built over holds the data.
BuiltTree ==
  new # NoPackage /\ new.tree # NoTree =>
    ((new.tree = DataOf(new.bpkg))
       <=> IsPrefix(DataOf(new.bpkg), disk[Compared(new)]))

\* The two halves of EveryPartAccounted.
PartsListed == \A k \in DOMAIN list : Owned(list[k]) \subseteq heap

PartsReached ==
  process \in {"running", "quit"} =>
    \A a \in heap : \/ a \in rebuilt \X {"first tree"}
                    \/ \E k \in DOMAIN list : a \in Owned(list[k])
                    \/ new # NoPackage /\ a \in Owned(new)

PackagesInv ==
  /\ TypeOK /\ DiskTyped
  /\ Numbered /\ Building /\ BuiltTree
  /\ StatusOfLastCheck
  /\ PartsListed /\ PartsReached

-----------------------------------------------------------------------------
(* Sequences and file contents.                                            *)

LEMMA ElementIn ==
  ASSUME NEW S, NEW s \in Seq(S)
  PROVE  /\ Len(s) \in Nat /\ DOMAIN s = 1 .. Len(s)
         /\ \A k \in DOMAIN s : s[k] \in S
  OBVIOUS

LEMMA IndexIn ==
  ASSUME NEW S, NEW s \in Seq(S), NEW k \in DOMAIN s
  PROVE  k \in Nat
  OBVIOUS

LEMMA AppendAt ==
  ASSUME NEW S, NEW s \in Seq(S), NEW e \in S
  PROVE  /\ Append(s, e) \in Seq(S)
         /\ \A k \in DOMAIN Append(s, e) :
              \/ k \in DOMAIN s /\ Append(s, e)[k] = s[k]
              \/ k = Len(s) + 1 /\ Append(s, e)[k] = e
         /\ \A k \in DOMAIN s : k \in DOMAIN Append(s, e)
         /\ Len(s) + 1 \in DOMAIN Append(s, e)
  OBVIOUS

LEMMA ConcatAt ==
  ASSUME NEW S, NEW s \in Seq(S), NEW t \in Seq(S)
  PROVE  /\ s \o t \in Seq(S) /\ Len(s \o t) = Len(s) + Len(t)
         /\ \A k \in 1 .. Len(s) + Len(t) :
              (s \o t)[k] = IF k <= Len(s) THEN s[k] ELSE t[k - Len(s)]
  OBVIOUS

\* A sequence without its i-th element.
LEMMA RemoveAtElements ==
  ASSUME NEW S, NEW s \in Seq(S), NEW i \in 1 .. Len(s)
  PROVE  /\ RemoveAt(s, i) \in Seq(S)
         /\ Len(RemoveAt(s, i)) = Len(s) - 1
         /\ \A k \in 1 .. Len(s) - 1 :
              RemoveAt(s, i)[k] = IF k < i THEN s[k] ELSE s[k + 1]
<1> DEFINE a == SubSeq(s, 1, i - 1)
           b == SubSeq(s, i + 1, Len(s))
<1>1. i \in Nat /\ 1 <= i /\ i <= Len(s) /\ Len(s) \in Nat
  OBVIOUS
<1>2. /\ a \in Seq(S) /\ Len(a) = i - 1
      /\ \A k \in 1 .. i - 1 : a[k] = s[k]
  BY <1>1
<1>3. /\ b \in Seq(S) /\ Len(b) = Len(s) - i
      /\ \A k \in 1 .. Len(s) - i : b[k] = s[i + k]
  BY <1>1
<1>4. RemoveAt(s, i) = a \o b
  BY DEF RemoveAt
<1> HIDE DEF a, b
<1>5. a \o b \in Seq(S) /\ Len(a \o b) = Len(s) - 1
  <2>1. a \in Seq(S) /\ b \in Seq(S)
    BY <1>2, <1>3
  <2>2. a \o b \in Seq(S) /\ Len(a \o b) = Len(a) + Len(b)
    BY <2>1, ConcatAt
  <2>3. Len(a) + Len(b) = Len(s) - 1
    BY <1>1, <1>2, <1>3
  <2>. QED BY <2>2, <2>3
<1>6. ASSUME NEW k \in 1 .. Len(s) - 1
      PROVE  (a \o b)[k] = IF k < i THEN s[k] ELSE s[k + 1]
  <2>1. CASE k < i
    BY <1>1, <1>2, <1>3, <2>1
  <2>2. CASE ~(k < i)
    <3>1. k - (i - 1) \in 1 .. Len(s) - i /\ i + (k - (i - 1)) = k + 1
      BY <1>1, <2>2
    <3>2. (a \o b)[k] = b[k - (i - 1)]
      BY <1>1, <1>2, <1>3, <2>2
    <3>. QED BY <1>3, <2>2, <3>1, <3>2
  <2>. QED BY <2>1, <2>2
<1>. QED BY <1>4, <1>5, <1>6

\* What is left are the other elements, each of them.
LEMMA RemoveAtOthers ==
  ASSUME NEW S, NEW s \in Seq(S), NEW i \in DOMAIN s
  PROVE  /\ RemoveAt(s, i) \in Seq(S)
         /\ \A k \in DOMAIN RemoveAt(s, i) :
              \E j \in DOMAIN s : /\ j # i
                                  /\ j = IF k < i THEN k ELSE k + 1
                                  /\ RemoveAt(s, i)[k] = s[j]
         /\ \A j \in DOMAIN s : j # i =>
              \E k \in DOMAIN RemoveAt(s, i) : RemoveAt(s, i)[k] = s[j]
<1> DEFINE r == RemoveAt(s, i)
<1>1. /\ Len(s) \in Nat /\ DOMAIN s = 1 .. Len(s)
      /\ i \in Nat /\ 1 <= i /\ i <= Len(s)
  OBVIOUS
<1>2. /\ r \in Seq(S) /\ Len(r) = Len(s) - 1
      /\ \A k \in 1 .. Len(s) - 1 : r[k] = IF k < i THEN s[k] ELSE s[k + 1]
  BY <1>1, RemoveAtElements
<1>3. DOMAIN r = 1 .. Len(s) - 1
  BY <1>2
<1> HIDE DEF r
<1>4. ASSUME NEW k \in 1 .. Len(s) - 1
      PROVE  LET j == IF k < i THEN k ELSE k + 1 IN
             j \in 1 .. Len(s) /\ j # i /\ r[k] = s[j]
  BY <1>1, <1>2
<1>5. ASSUME NEW j \in 1 .. Len(s), j # i
      PROVE  \E k \in 1 .. Len(s) - 1 : r[k] = s[j]
  <2>1. CASE j < i
    <3>1. j \in 1 .. Len(s) - 1 /\ r[j] = s[j]
      BY <1>1, <1>2, <2>1
    <3>. QED BY <3>1
  <2>2. CASE j > i
    <3>1. j - 1 \in 1 .. Len(s) - 1 /\ ~(j - 1 < i) /\ j - 1 + 1 = j
      BY <1>1, <2>2
    <3>2. r[j - 1] = s[j]
      BY <1>2, <3>1
    <3>. QED BY <3>1, <3>2
  <2>. QED BY <1>1, <1>5, <2>1, <2>2
<1>. QED BY <1>1, <1>2, <1>3, <1>4, <1>5 DEF r

\* ftruncate leaves n blocks, and to the size it has it changes nothing.
LEMMA ResizedTo ==
  ASSUME NEW c \in Seq(Block), NEW n \in Nat
  PROVE  /\ Resized(c, n) \in Seq(Block)
         /\ n = Len(c) => Resized(c, n) = c
<1>1. \A k \in 1 .. n : (IF k <= Len(c) THEN c[k] ELSE Zero) \in Block
  BY PackagesAssumption
<1>2. Resized(c, n) \in Seq(Block)
  BY <1>1 DEF Resized
<1>3. ASSUME n = Len(c) PROVE Resized(c, n) = c
  <2>1. /\ Len(Resized(c, n)) = n
        /\ \A k \in 1 .. n : Resized(c, n)[k] = c[k]
    BY <1>3 DEF Resized
  <2>. QED BY <1>2, <1>3, <2>1
<1>. QED BY <1>2, <1>3

LEMMA DataSize ==
  ASSUME NEW b \in Bpkg
  PROVE  /\ DataOf(b) \in Seq(Block) /\ Len(DataOf(b)) \in Nat
         /\ FileOf(b) \in File
  BY PackagesAssumption

LEMMA TreeTyped ==
  ASSUME NEW c \in Seq(Block), NEW b \in Bpkg, NEW tree \in TreesOver(c, b)
  PROVE  tree \in Seq(Block) \cup {NoTree, Garbage}
<1>1. CASE tree = NoTree \/ c = Absent \/ Len(c) < Len(DataOf(b))
  BY <1>1 DEF TreesOver
<1>2. CASE tree # NoTree /\ c # Absent /\ ~(Len(c) < Len(DataOf(b)))
  <2>1. tree = SubSeq(c, 1, Len(DataOf(b)))
    BY <1>2 DEF TreesOver
  <2>2. Len(DataOf(b)) \in Nat /\ Len(DataOf(b)) <= Len(c)
    BY <1>2, DataSize
  <2>. QED BY <2>1, <2>2
<1>. QED BY <1>1, <1>2

\* The tree over a file is complete just when the file begins with the data:
\* a shorter file makes a tree over unwritten leaves, a longer one is cut.
LEMMA TreeComplete ==
  ASSUME NEW c \in Seq(Block), NEW b \in Bpkg, NEW tree \in TreesOver(c, b),
         tree # NoTree
  PROVE  (tree = DataOf(b)) <=> IsPrefix(DataOf(b), c)
<1>1. DataOf(b) \in Seq(Block) /\ Len(DataOf(b)) \in Nat /\ Len(c) \in Nat
  BY DataSize
<1>2. CASE Len(c) < Len(DataOf(b))
  <2>1. tree = Garbage
    BY <1>2 DEF TreesOver
  <2>2. tree # DataOf(b)
    BY <1>1, <2>1, PackagesAssumption
  <2>3. ~(Len(DataOf(b)) <= Len(c))
    BY <1>1, <1>2
  <2>. QED BY <2>2, <2>3 DEF IsPrefix
<1>3. CASE ~(Len(c) < Len(DataOf(b)))
  <2>1. tree = SubSeq(c, 1, Len(DataOf(b)))
    BY <1>3 DEF TreesOver
  <2>2. Len(DataOf(b)) <= Len(c)
    BY <1>1, <1>3
  <2>3. SubSeq(DataOf(b), 1, Len(DataOf(b))) = DataOf(b)
    BY <1>1
  <2>. QED BY <2>1, <2>2, <2>3 DEF IsPrefix
<1>. QED BY <1>2, <1>3

LEMMA Paths ==
  ASSUME NEW g \in File
  PROVE  /\ Cwd(g) \in Path /\ InDirectory(g) \in Path /\ Stray \in Path
         /\ Cwd(g) # Stray /\ \A h : Cwd(g) # InDirectory(h)
  BY DEF Path, Cwd, InDirectory, Stray

-----------------------------------------------------------------------------
(* Steps.                                                                  *)

LEMMA Bound == MaxAdds \in Nat
  BY PackagesAssumption

LEMMA ObjectFields ==
  ASSUME NEW o \in Object
  PROVE  /\ o.id \in 1 .. MaxAdds /\ o.id \in Nat
         /\ o.bpkg \in Bpkg /\ o.path \in Path
         /\ o.tree \in Seq(Block) \cup {NoTree, Garbage}
         /\ o.held \in {"none", "first tree", "second tree"}
<1>1. /\ o.id \in 1 .. MaxAdds /\ o.bpkg \in Bpkg /\ o.path \in Path
      /\ o.tree \in Seq(Block) \cup {NoTree, Garbage}
      /\ o.held \in {"none", "first tree", "second tree"}
  BY DEF Object
<1>2. \A n \in 1 .. MaxAdds : n \in Nat
  BY Bound
<1>. QED BY <1>1, <1>2

LEMMA ObjectMade ==
  ASSUME NEW n \in 1 .. MaxAdds, NEW b \in Bpkg, NEW p \in Path,
         NEW tree \in Seq(Block) \cup {NoTree, Garbage},
         NEW part \in {"none", "first tree", "second tree"}
  PROVE  [id |-> n, bpkg |-> b, path |-> p, tree |-> tree, held |-> part,
          complete |-> "INCOMPLETE"] \in Object
  BY DEF Object

\* What is being added, and what is listed, are objects.
LEMMA Fields ==
  ASSUME TypeOK
  PROVE  /\ new # NoPackage =>
              /\ new \in Object /\ new.id \in Nat /\ new.bpkg \in Bpkg
              /\ new.path \in Path
         /\ DOMAIN list = 1 .. Len(list) /\ Len(list) \in Nat
         /\ \A k \in DOMAIN list :
              /\ list[k] \in Object /\ list[k].id \in Nat
              /\ list[k].path \in Path
         /\ made \in Nat
         /\ \A p \in Path : checked[p] \in Nat
<1>1. /\ list \in Seq(Object) /\ new \in Object \cup {NoPackage}
      /\ made \in 0 .. MaxAdds /\ checked \in [Path -> 0 .. MaxAdds]
  BY DEF TypeOK
<1>2. \A o \in Object : /\ o.id \in Nat /\ o.bpkg \in Bpkg
                        /\ o.path \in Path
  BY ObjectFields
<1>3. \A k \in DOMAIN list : list[k] \in Object
  BY <1>1, ElementIn
<1>4. DOMAIN list = 1 .. Len(list) /\ Len(list) \in Nat
  BY <1>1, ElementIn
<1>5. made \in Nat /\ \A p \in Path : checked[p] \in Nat
  BY <1>1, Bound
<1>. QED BY <1>1, <1>2, <1>3, <1>4, <1>5

\* A step that leaves the packages, the files and the memory alone.
LEMMA QuietStep ==
  ASSUME PackagesInv,
         UNCHANGED <<list, new, disk, heap, made, history>>,
         cli' = cli \/ {cli, cli'} \subseteq {"prompt", "remove", "list"},
         cli' \in {"prompt", "resize", "build", "append", "remove", "list"},
         process' \in {"running", "quit", "ended", "crashed"},
         process' \in {"running", "quit"} => process \in {"running", "quit"},
         lock' \in BOOLEAN, query' \in Query \cup {<<>>}
  PROVE  PackagesInv'
<1> USE DEF history
<1>1. TypeOK'
  BY DEF PackagesInv, TypeOK
<1>2. DiskTyped' /\ Numbered' /\ Building' /\ BuiltTree'
  BY DEF PackagesInv, DiskTyped, Numbered, Building, BuiltTree, Compared
<1>3. StatusOfLastCheck' /\ PartsListed' /\ PartsReached'
  BY DEF PackagesInv, StatusOfLastCheck, PartsListed, PartsReached, Owned,
     Compared
<1>. QED BY <1>1, <1>2, <1>3 DEF PackagesInv

\* bpkg_load returns an object with a number of its own and allocates what
\* the object holds.
LEMMA AddLoadStep ==
  ASSUME PackagesInv, NEW b \in Bpkg, AddLoad(b)
  PROVE  PackagesInv'
<1>1. PICK tree \in TreesOver(disk[Cwd(FileOf(b))], b) :
        LET part == IF tree = NoTree THEN "none" ELSE "first tree" IN
        /\ new' = [id |-> made + 1, bpkg |-> b, path |-> Cwd(FileOf(b)),
                   tree |-> tree, held |-> part, complete |-> "INCOMPLETE"]
        /\ heap' = heap \cup ({<<made + 1, "object">>, <<made + 1, part>>}
                                \ {<<made + 1, "none">>})
        /\ process' \in {"running", "crashed"}
  BY DEF AddLoad, Outcomes
<1> DEFINE part == IF tree = NoTree THEN "none" ELSE "first tree"
<1>2. /\ At("prompt") /\ made < MaxAdds /\ made' = made + 1
      /\ cli' = "resize"
      /\ UNCHANGED <<lock, list, query, disk, checked, rebuilt>>
  BY DEF AddLoad, history
<1>3. TypeOK /\ made \in 0 .. MaxAdds /\ made + 1 \in 1 .. MaxAdds
  <2>1. TypeOK /\ made \in 0 .. MaxAdds
    BY DEF PackagesInv, TypeOK
  <2>. QED BY <1>2, <2>1, Bound
<1>4. new = NoPackage
  BY <1>2, <1>3 DEF TypeOK, At
<1>5. new' \in Object /\ new' # NoPackage
  <2>1. FileOf(b) \in File /\ Cwd(FileOf(b)) \in Path
    BY DataSize, Paths
  <2>2. disk[Cwd(FileOf(b))] \in Seq(Block)
    BY <2>1 DEF PackagesInv, DiskTyped
  <2>3. tree \in Seq(Block) \cup {NoTree, Garbage}
    BY <2>2, TreeTyped
  <2>4. new' \in Object
    BY <1>1, <1>3, <2>1, <2>3, ObjectMade
  <2>. QED BY <2>4, NoPackageAssumption
<1>6. heap' \subseteq (1 .. MaxAdds) \X Part
  <2>1. heap \subseteq (1 .. MaxAdds) \X Part
    BY <1>3 DEF TypeOK
  <2>2. "object" \in Part /\ "first tree" \in Part
    BY DEF Part
  <2>3. /\ <<made + 1, "object">> \in (1 .. MaxAdds) \X Part
        /\ part # "none" => <<made + 1, part>> \in (1 .. MaxAdds) \X Part
    BY <1>3, <2>2
  <2>4. ASSUME NEW a \in heap'
        PROVE  \/ a \in heap \/ a = <<made + 1, "object">>
               \/ a = <<made + 1, part>> /\ part # "none"
    BY <1>1
  <2>. QED BY <2>1, <2>3, <2>4
<1>7. TypeOK'
  <2>1. made' \in 0 .. MaxAdds
    BY <1>2, <1>3, Bound
  <2>2. (new' # NoPackage) = (cli' \in {"resize", "build", "append"})
    BY <1>2, <1>5
  <2>3. process' \in {"running", "quit", "ended", "crashed"}
    BY <1>1
  <2>. QED BY <1>2, <1>3, <1>5, <1>6, <2>1, <2>2, <2>3 DEF TypeOK
<1>8. /\ new'.id = made + 1 /\ new'.held = part /\ new'.tree = tree
  BY <1>1
<1>9. Numbered'
  <2>1. made \in Nat
    BY <1>3, Fields
  <2>2. ASSUME NEW k \in DOMAIN list
        PROVE  list[k].id <= made' /\ list[k].id < made'
    BY <1>2, <1>3, <2>1, Fields DEF PackagesInv, Numbered
  <2>3. ASSUME NEW p \in Path
        PROVE  checked[p] <= made' /\ checked[p] < made'
    BY <1>2, <1>3, <2>1, Fields DEF PackagesInv, Numbered
  <2>. QED BY <1>2, <1>8, <2>2, <2>3 DEF Numbered
<1>10. Building'
  <2>1. <<made + 1, "object">> \in heap'
    BY <1>1
  <2>2. part # "none" => <<made + 1, part>> \in heap'
    BY <1>1
  <2>3. \A n \in rebuilt' : n <= made'
    <3>1. made \in Nat /\ rebuilt \subseteq 1 .. MaxAdds
      BY <1>3, Fields DEF TypeOK
    <3>2. ASSUME NEW n \in rebuilt PROVE n <= made + 1
      <4>1. n \in 1 .. MaxAdds /\ n <= made
        BY <3>1 DEF PackagesInv, Building
      <4>2. n \in Nat
        BY <4>1, Bound
      <4>. QED BY <3>1, <4>1, <4>2
    <3>. QED BY <1>2, <3>2
  <2>4. IF part = "none" THEN tree = NoTree ELSE tree # NoTree
    OBVIOUS
  <2>5. part # "second tree"
    OBVIOUS
  <2> HIDE DEF part
  <2>. QED BY <1>8, <2>1, <2>2, <2>3, <2>4, <2>5 DEF Building
<1>11. DiskTyped' /\ BuiltTree' /\ StatusOfLastCheck'
  <2>1. BuiltTree'
    <3>1. CASE tree = NoTree
      BY <1>8, <3>1 DEF BuiltTree
    <3>2. CASE tree # NoTree
      <4>1. /\ Compared(new)' = Cwd(FileOf(b)) /\ new'.bpkg = b
            /\ disk' = disk
        BY <1>1, <1>2, <3>2 DEF Compared
      <4>2. disk[Cwd(FileOf(b))] \in Seq(Block)
        BY DataSize, Paths DEF PackagesInv, DiskTyped
      <4>3. (tree = DataOf(b)) <=> IsPrefix(DataOf(b), disk[Cwd(FileOf(b))])
        BY <3>2, <4>2, TreeComplete
      <4>. QED BY <1>8, <4>1, <4>3 DEF BuiltTree
    <3>. QED BY <3>1, <3>2
  <2>2. DiskTyped' /\ StatusOfLastCheck'
    BY <1>2 DEF PackagesInv, DiskTyped, StatusOfLastCheck, Compared
  <2>. QED BY <2>1, <2>2
<1>12. PartsListed'
  BY <1>1, <1>2 DEF PackagesInv, PartsListed, Owned
<1>13. PartsReached'
  <2>1. ASSUME NEW a \in heap'
        PROVE  a \in heap \/ a \in {<<made + 1, "object">>, <<made + 1, part>>}
    BY <1>1
  <2>2. /\ <<made + 1, "object">> \in Owned(new)'
        /\ <<made + 1, part>> \in Owned(new)'
    BY <1>8 DEF Owned
  <2>3. process = "running"
    BY <1>2 DEF At
  <2>. QED BY <1>2, <1>4, <1>5, <2>1, <2>2, <2>3
           DEF PackagesInv, PartsReached, Owned
<1>. QED BY <1>7, <1>9, <1>10, <1>11, <1>12, <1>13 DEF PackagesInv

LEMMA ComparedPath ==
  ASSUME NEW o \in Object
  PROVE  Compared(o) \in Path
<1>1. o.bpkg \in Bpkg /\ o.path \in Path
  BY ObjectFields
<1>. QED BY <1>1, DataSize, Paths DEF Compared

\* The parts of an object are found by its number and by what it holds.
LEMMA OwnedBy ==
  ASSUME NEW o, NEW oo, o.id = oo.id, o.held = oo.held
  PROVE  Owned(o) = Owned(oo)
  BY DEF Owned

\* Objects with two numbers have no part in common.
LEMMA OwnedApart ==
  ASSUME NEW o, NEW oo, o.id # oo.id
  PROVE  Owned(o) \cap Owned(oo) = {}
  BY DEF Owned

\* file_checker changes a path, and the object is the one bpkg_load returned
\* but for its path. What was compared with that path before is older.
LEMMA AddResizeStep ==
  ASSUME PackagesInv, AddResize
  PROVE  PackagesInv'
<1> DEFINE size == Len(DataOf(new.bpkg))
<1>1. PICK path \in Named(new) :
        /\ new' = [new EXCEPT !.path = path]
        /\ \/ /\ disk' = [disk EXCEPT ![path] = Resized(disk[path], size)]
              /\ checked' = [checked EXCEPT ![path] = new.id]
           \/ UNCHANGED <<disk, checked>>
  BY DEF AddResize
<1>2. /\ At("resize") /\ cli' = "build"
      /\ UNCHANGED <<process, lock, list, query, heap, made, rebuilt>>
  BY DEF AddResize
<1>3. TypeOK /\ DiskTyped
  BY DEF PackagesInv
<1>4. new # NoPackage /\ new \in Object
  BY <1>2, <1>3, Fields DEF TypeOK, At
<1>5. /\ new.id \in 1 .. MaxAdds /\ new.id \in Nat /\ new.bpkg \in Bpkg
      /\ new.held \in {"none", "first tree"}
  BY <1>2, <1>4, ObjectFields DEF PackagesInv, Building, At
<1>6. /\ path \in Path /\ Cwd(FileOf(new.bpkg)) \in Path
      /\ path # Cwd(FileOf(new.bpkg))
  BY <1>5, DataSize, Paths DEF Named
<1>7. /\ new'.id = new.id /\ new'.path = path /\ new'.tree = new.tree
      /\ new'.held = new.held /\ new'.bpkg = new.bpkg /\ new' \in Object
  BY <1>1, <1>4, <1>6 DEF Object
<1>8. new' # NoPackage
  BY <1>7, NoPackageAssumption
<1>9. /\ disk' \in [Path -> Seq(Block)] /\ checked' \in [Path -> 0 .. MaxAdds]
      /\ \A p \in Path : \/ disk'[p] = disk[p] /\ checked'[p] = checked[p]
                         \/ p = path /\ checked'[p] = new.id
  <2>1. /\ disk \in [Path -> Seq(Block)] /\ checked \in [Path -> 0 .. MaxAdds]
    BY <1>3 DEF TypeOK, DiskTyped
  <2>2. Resized(disk[path], size) \in Seq(Block)
    BY <1>5, <1>6, <2>1, DataSize, ResizedTo
  <2>3. new.id \in 0 .. MaxAdds
    <3>1. new.id \in 1 .. MaxAdds
      BY <1>5
    <3>2. \A n \in 1 .. MaxAdds : n \in 0 .. MaxAdds
      BY Bound
    <3>. QED BY <3>1, <3>2
  <2> HIDE DEF size
  <2>4. CASE UNCHANGED <<disk, checked>>
    BY <2>1, <2>4
  <2>5. CASE /\ disk' = [disk EXCEPT ![path] = Resized(disk[path], size)]
             /\ checked' = [checked EXCEPT ![path] = new.id]
    <3>1. disk' \in [Path -> Seq(Block)]
      BY <1>6, <2>1, <2>2, <2>5
    <3>2. checked' \in [Path -> 0 .. MaxAdds]
      BY <1>6, <2>1, <2>3, <2>5
    <3>3. \A p \in Path : p # path => disk'[p] = disk[p]
      BY <2>1, <2>5
    <3>4. \A p \in Path :
            checked'[p] = IF p = path THEN new.id ELSE checked[p]
      BY <2>1, <2>5
    <3>. QED BY <3>1, <3>2, <3>3, <3>4
  <2>. QED BY <1>1, <2>4, <2>5
<1>10. TypeOK'
  <2>1. (new' # NoPackage) = (cli' \in {"resize", "build", "append"})
    BY <1>2, <1>8
  <2>. QED BY <1>2, <1>3, <1>7, <1>9, <2>1 DEF TypeOK
<1>11. DiskTyped'
  BY <1>9 DEF DiskTyped
<1>12. /\ new.id = made /\ \A k \in DOMAIN list : list[k].id < made
       /\ \A p \in Path : checked[p] < made
  BY <1>2, <1>4 DEF PackagesInv, Numbered, At
<1>13. Numbered'
  <2>1. made \in Nat /\ \A p \in Path : checked[p] \in Nat
    BY <1>3, Fields
  <2>2. \A p \in Path : checked'[p] <= made
    BY <1>9, <1>12, <2>1
  <2>. QED BY <1>2, <1>7, <1>12, <2>2 DEF PackagesInv, Numbered
<1>14. Building'
  BY <1>2, <1>4, <1>5, <1>7 DEF PackagesInv, Building
<1>15. BuiltTree'
  <2>1. CASE new.held = "none"
    BY <1>4, <1>7, <2>1 DEF PackagesInv, Building, BuiltTree
  <2>2. CASE new.held = "first tree"
    <3>1. /\ Compared(new) = Cwd(FileOf(new.bpkg))
          /\ Compared(new)' = Cwd(FileOf(new.bpkg))
      BY <1>7, <2>2 DEF Compared
    <3>2. disk'[Cwd(FileOf(new.bpkg))] = disk[Cwd(FileOf(new.bpkg))]
      BY <1>6, <1>9
    <3>. QED BY <1>4, <1>7, <3>1, <3>2 DEF PackagesInv, BuiltTree
  <2>. QED BY <1>5, <2>1, <2>2
<1>16. StatusOfLastCheck'
  <2>1. ASSUME NEW k \in DOMAIN list,
               checked'[Compared(list[k])] <= list[k].id
        PROVE  (list[k].complete = "COMPLETED" <=>
                  IsPrefix(DataOf(list[k].bpkg), disk'[Compared(list[k])]))
    <3>1. /\ Compared(list[k]) \in Path /\ list[k].id < made
          /\ list[k].id \in Nat /\ made \in Nat
      BY <1>3, <1>12, Fields, ComparedPath
    <3>2. /\ disk'[Compared(list[k])] = disk[Compared(list[k])]
          /\ checked'[Compared(list[k])] = checked[Compared(list[k])]
      BY <1>9, <1>12, <2>1, <3>1
    <3>. QED BY <2>1, <3>2 DEF PackagesInv, StatusOfLastCheck
  <2>. QED BY <1>2, <2>1 DEF StatusOfLastCheck, Compared
<1>17. PartsListed'
  BY <1>2 DEF PackagesInv, PartsListed, Owned
<1>18. PartsReached'
  <2>1. Owned(new') = Owned(new)
    BY <1>7, OwnedBy
  <2>2. process = "running"
    BY <1>2 DEF At
  <2>3. \A a \in heap : \/ a \in rebuilt \X {"first tree"}
                        \/ \E k \in DOMAIN list : a \in Owned(list[k])
                        \/ a \in Owned(new')
    BY <2>1, <2>2 DEF PackagesInv, PartsReached
  <2>. QED BY <1>2, <1>8, <2>3 DEF PartsReached, Owned
<1>. QED BY <1>10, <1>11, <1>13, <1>14, <1>15, <1>16, <1>17, <1>18
         DEF PackagesInv

\* initilise_tree puts a second tree in the place of what the object holds,
\* or leaves the object as it is.
LEMMA AddBuildStep ==
  ASSUME PackagesInv, AddBuild
  PROVE  PackagesInv'
<1>1. /\ At("build") /\ cli' = "append"
      /\ UNCHANGED <<lock, list, query, disk, made, checked>>
  BY DEF AddBuild
<1>2. PICK tree \in TreesOver(disk[new.path], new.bpkg) :
        \/ tree = NoTree /\ UNCHANGED <<process, new, heap, rebuilt>>
        \/ /\ tree # NoTree
           /\ new' = [new EXCEPT !.tree = tree, !.held = "second tree"]
           /\ heap' = heap \cup {<<new.id, "second tree">>}
           /\ rebuilt' = rebuilt \cup {new.id}
           /\ process' \in {"running", "crashed"}
  BY DEF AddBuild, Outcomes
<1>3. TypeOK /\ DiskTyped
  BY DEF PackagesInv
<1>4. new # NoPackage /\ new \in Object
  BY <1>1, <1>3, Fields DEF TypeOK, At
<1>5. /\ new.id \in 1 .. MaxAdds /\ new.id \in Nat /\ new.bpkg \in Bpkg
      /\ new.path \in Path /\ new.held \in {"none", "first tree"}
  BY <1>1, <1>4, ObjectFields DEF PackagesInv, Building, At
<1>6. CASE tree = NoTree /\ UNCHANGED <<process, new, heap, rebuilt>>
  <2>1. TypeOK'
    BY <1>1, <1>3, <1>4, <1>6 DEF TypeOK
  <2>2. DiskTyped' /\ Numbered' /\ Building' /\ BuiltTree'
    BY <1>1, <1>6 DEF PackagesInv, DiskTyped, Numbered, Building, BuiltTree,
       Compared
  <2>3. StatusOfLastCheck' /\ PartsListed' /\ PartsReached'
    BY <1>1, <1>6 DEF PackagesInv, StatusOfLastCheck, PartsListed,
       PartsReached, Owned, Compared
  <2>. QED BY <2>1, <2>2, <2>3 DEF PackagesInv
<1>7. CASE tree # NoTree
  <2>1. /\ new' = [new EXCEPT !.tree = tree, !.held = "second tree"]
        /\ heap' = heap \cup {<<new.id, "second tree">>}
        /\ rebuilt' = rebuilt \cup {new.id}
        /\ process' \in {"running", "crashed"} /\ process = "running"
    BY <1>1, <1>2, <1>7 DEF At
  <2>2. disk[new.path] \in Seq(Block)
    BY <1>3, <1>5 DEF DiskTyped
  <2>3. tree \in Seq(Block) \cup {NoTree, Garbage}
    BY <1>5, <2>2, TreeTyped
  <2>4. /\ new'.id = new.id /\ new'.path = new.path /\ new'.tree = tree
        /\ new'.held = "second tree" /\ new'.bpkg = new.bpkg
        /\ new' \in Object
    BY <1>4, <2>1, <2>3 DEF Object
  <2>5. new' # NoPackage
    BY <2>4, NoPackageAssumption
  <2>6. TypeOK'
    <3>1. heap' \subseteq (1 .. MaxAdds) \X Part
      <4>1. heap \subseteq (1 .. MaxAdds) \X Part
        BY <1>3 DEF TypeOK
      <4>2. <<new.id, "second tree">> \in (1 .. MaxAdds) \X Part
        BY <1>5 DEF Part
      <4>. QED BY <2>1, <4>1, <4>2
    <3>2. rebuilt' \subseteq 1 .. MaxAdds
      BY <1>3, <1>5, <2>1 DEF TypeOK
    <3>3. (new' # NoPackage) = (cli' \in {"resize", "build", "append"})
      BY <1>1, <2>5
    <3>. QED BY <1>1, <1>3, <2>1, <2>4, <3>1, <3>2, <3>3 DEF TypeOK
  <2>7. DiskTyped' /\ Numbered'
    BY <1>1, <1>4, <2>4 DEF PackagesInv, DiskTyped, Numbered
  <2>8. Building'
    <3>1. \A n \in rebuilt' : n <= made'
      <4>1. new.id = made
        BY <1>4 DEF PackagesInv, Numbered
      <4>2. made \in Nat
        BY <1>3, Fields
      <4>3. made' = made /\ \A n \in rebuilt : n <= made
        BY <1>1 DEF PackagesInv, Building
      <4>4. \A n \in rebuilt' : n \in rebuilt \/ n = made
        BY <2>1, <4>1
      <4>5. made <= made
        BY <4>2
      <4>. QED BY <4>3, <4>4, <4>5
    <3>2. <<new.id, "object">> \in heap' /\ <<new.id, "second tree">> \in heap'
      BY <1>4, <2>1 DEF PackagesInv, Building
    <3>. QED BY <1>1, <1>7, <2>4, <3>1, <3>2 DEF Building
  <2>9. BuiltTree'
    <3>1. Compared(new)' = new.path
      BY <2>4 DEF Compared
    <3>. QED BY <1>1, <1>5, <1>7, <2>2, <2>4, <3>1, TreeComplete
             DEF BuiltTree
  <2>10. StatusOfLastCheck' /\ PartsListed'
    BY <1>1, <2>1 DEF PackagesInv, StatusOfLastCheck, Compared, PartsListed,
       Owned
  <2>11. PartsReached'
    <3>1. ASSUME NEW a \in heap, a \in Owned(new)
          PROVE  a \in rebuilt' \X {"first tree"} \/ a \in Owned(new')
      <4>1. a[2] \in Part
        BY <1>3 DEF TypeOK
      <4>2. a \in {<<new.id, "object">>, <<new.id, "node">>,
                   <<new.id, new.held>>}
        BY <3>1 DEF Owned
      <4>3. CASE a = <<new.id, new.held>>
        <5>1. a[2] = new.held /\ new.held # "none"
          BY <4>1, <4>3 DEF Part
        <5>2. a = <<new.id, "first tree">>
          BY <1>5, <4>3, <5>1
        <5>. QED BY <2>1, <5>2
      <4>4. CASE a # <<new.id, new.held>>
        BY <2>4, <4>2, <4>4 DEF Owned
      <4>. QED BY <4>3, <4>4
    <3>2. <<new.id, "second tree">> \in Owned(new')
      BY <2>4 DEF Owned
    <3>3. \A a \in heap : \/ a \in rebuilt \X {"first tree"}
                          \/ \E k \in DOMAIN list : a \in Owned(list[k])
                          \/ a \in Owned(new)
      BY <2>1 DEF PackagesInv, PartsReached
    <3>4. \A a : a \in rebuilt \X {"first tree"}
                   => a \in rebuilt' \X {"first tree"}
      BY <2>1
    <3>5. \A a \in heap' : \/ a \in rebuilt' \X {"first tree"}
                           \/ \E k \in DOMAIN list : a \in Owned(list[k])
                           \/ a \in Owned(new')
      BY <2>1, <3>1, <3>2, <3>3, <3>4
    <3>. QED BY <1>1, <2>5, <3>5 DEF PartsReached, Owned
  <2>. QED BY <2>6, <2>7, <2>8, <2>9, <2>10, <2>11 DEF PackagesInv
<1>. QED BY <1>2, <1>6, <1>7

\* The object that is listed is the one that was built, with its status.
LEMMA AddAppendStep ==
  ASSUME PackagesInv, AddAppend, new.tree # NoTree
  PROVE  PackagesInv'
<1> DEFINE o == [new EXCEPT !.complete = Status(new)]
<1>1. /\ At("append") /\ lock = FALSE
      /\ list' = Append(list, o)
      /\ heap' = heap \cup {<<new.id, "node">>}
      /\ new' = NoPackage /\ cli' = "prompt"
      /\ UNCHANGED <<process, lock, query, disk, made, checked, rebuilt>>
  BY DEF AddAppend, history
<1>2. TypeOK
  BY DEF PackagesInv
<1>3. new # NoPackage /\ new \in Object
  BY <1>1, <1>2, Fields DEF TypeOK, At
<1>4. /\ o \in Object /\ o.id = new.id /\ o.held = new.held
      /\ o.path = new.path /\ o.bpkg = new.bpkg
      /\ o.complete = Status(new)
  BY <1>3 DEF Object, Status
<1> HIDE DEF o
<1>5. /\ list' \in Seq(Object)
      /\ \A k \in DOMAIN list' :
           \/ k \in DOMAIN list /\ list'[k] = list[k]
           \/ k = Len(list) + 1 /\ list'[k] = o
      /\ \A k \in DOMAIN list : k \in DOMAIN list' /\ list'[k] = list[k]
      /\ Len(list) + 1 \in DOMAIN list' /\ list'[Len(list) + 1] = o
  <2>1. list \in Seq(Object)
    BY <1>2 DEF TypeOK
  <2>2. \A k \in DOMAIN list : k # Len(list) + 1
    BY <1>2, Fields
  <2>. QED BY <1>1, <1>4, <2>1, <2>2, AppendAt
<1>6. /\ o.id = made /\ \A k \in DOMAIN list : list[k].id < made
      /\ made \in Nat /\ \A k \in DOMAIN list : list[k].id \in Nat
  BY <1>2, <1>3, <1>4, Fields DEF PackagesInv, Numbered
<1>7. TypeOK'
  <2>1. heap' \subseteq (1 .. MaxAdds) \X Part
    <3>1. heap \subseteq (1 .. MaxAdds) \X Part
      BY <1>2 DEF TypeOK
    <3>2. <<new.id, "node">> \in (1 .. MaxAdds) \X Part
      BY <1>3, ObjectFields DEF Part
    <3>. QED BY <1>1, <3>1, <3>2
  <2>2. \A k, m \in DOMAIN list' : list'[k].id = list'[m].id => k = m
    <3> SUFFICES ASSUME NEW k \in DOMAIN list', NEW m \in DOMAIN list',
                        list'[k].id = list'[m].id
                 PROVE  k = m
      OBVIOUS
    <3>1. \A j \in DOMAIN list : list[j].id # o.id
      BY <1>6
    <3>2. \A j, l \in DOMAIN list : list[j].id = list[l].id => j = l
      BY <1>2 DEF TypeOK
    <3>. QED BY <1>5, <3>1, <3>2
  <2>3. (new' # NoPackage) = (cli' \in {"resize", "build", "append"})
    BY <1>1
  <2>. QED BY <1>1, <1>2, <1>5, <2>1, <2>2, <2>3 DEF TypeOK
<1>8. Numbered'
  <2>1. \A k \in DOMAIN list' : list'[k].id <= made
    BY <1>5, <1>6
  <2>. QED BY <1>1, <2>1 DEF PackagesInv, Numbered
<1>9. DiskTyped' /\ Building' /\ BuiltTree'
  BY <1>1 DEF PackagesInv, DiskTyped, Building, BuiltTree
<1>10. StatusOfLastCheck'
  <2>1. o.complete = "COMPLETED" <=>
          IsPrefix(DataOf(o.bpkg), disk[Compared(o)])
    <3>1. Compared(o) = Compared(new)
      BY <1>4 DEF Compared
    <3>2. (new.tree = DataOf(new.bpkg))
            <=> IsPrefix(DataOf(new.bpkg), disk[Compared(new)])
      BY <1>3 DEF PackagesInv, BuiltTree
    <3>. QED BY <1>4, <3>1, <3>2 DEF Status
  <2>2. ASSUME NEW k \in DOMAIN list',
               checked[Compared(list'[k])] <= list'[k].id
        PROVE  (list'[k].complete = "COMPLETED" <=>
                  IsPrefix(DataOf(list'[k].bpkg), disk[Compared(list'[k])]))
    <3>1. CASE list'[k] = o
      BY <2>1, <3>1
    <3>2. CASE k \in DOMAIN list /\ list'[k] = list[k]
      BY <2>2, <3>2 DEF PackagesInv, StatusOfLastCheck
    <3>. QED BY <1>5, <3>1, <3>2
  <2>. QED BY <1>1, <2>2 DEF StatusOfLastCheck, Compared
<1>11. Owned(o) = Owned(new)
  BY <1>4, OwnedBy
<1>12. PartsListed'
  <2>1. Owned(new) \subseteq heap'
    <3>1. new.held # "none" /\ <<new.id, new.held>> \in heap
      BY <1>3 DEF PackagesInv, Building
    <3>2. <<new.id, "object">> \in heap
      BY <1>3 DEF PackagesInv, Building
    <3>. QED BY <1>1, <3>1, <3>2 DEF Owned
  <2>2. \A k \in DOMAIN list : Owned(list[k]) \subseteq heap'
    BY <1>1 DEF PackagesInv, PartsListed
  <2>3. \A k \in DOMAIN list' : Owned(list'[k]) \subseteq heap'
    BY <1>5, <1>11, <2>1, <2>2
  <2>. QED BY <2>3 DEF PartsListed, Owned
<1>13. PartsReached'
  <2>1. process = "running"
    BY <1>1 DEF At
  <2>2. <<new.id, "node">> \in Owned(new)
    BY DEF Owned
  <2>3. ASSUME NEW a \in heap'
        PROVE  a \in rebuilt \X {"first tree"} \/ \E k \in DOMAIN list' : a \in Owned(list'[k])
    <3>1. \/ a \in rebuilt \X {"first tree"}
          \/ \E k \in DOMAIN list : a \in Owned(list[k])
          \/ a \in Owned(new)
      BY <1>1, <2>1, <2>2 DEF PackagesInv, PartsReached
    <3>2. CASE a \in Owned(new)
      BY <1>5, <1>11, <3>2
    <3>3. ASSUME NEW k \in DOMAIN list, a \in Owned(list[k])
          PROVE  \E m \in DOMAIN list' : a \in Owned(list'[m])
      BY <1>5, <3>3
    <3>. QED BY <3>1, <3>2, <3>3
  <2>. QED BY <1>1, <2>3 DEF PartsReached, Owned
<1>. QED BY <1>7, <1>8, <1>9, <1>10, <1>12, <1>13 DEF PackagesInv

\* remove_package takes one object out of the list and its parts, no others,
\* out of the heap.
LEMMA DestroyPackageStep ==
  ASSUME PackagesInv, DestroyPackage, NEW i \in FirstMatch(query),
         list' = RemoveAt(list, i), heap' = heap \ Owned(list[i])
  PROVE  PackagesInv'
<1>1. /\ At("remove") /\ query' = <<>> /\ cli' = "prompt"
      /\ UNCHANGED <<process, lock, new, disk, made, checked, rebuilt>>
  BY DEF DestroyPackage, history
<1>2. TypeOK /\ list \in Seq(Object) /\ i \in DOMAIN list
  BY DEF PackagesInv, TypeOK, FirstMatch
<1>3. new = NoPackage
  BY <1>1, <1>2 DEF TypeOK, At
<1>4. /\ list' \in Seq(Object)
      /\ \A k \in DOMAIN list' :
           \E j \in DOMAIN list : /\ j # i
                                  /\ j = IF k < i THEN k ELSE k + 1
                                  /\ list'[k] = list[j]
      /\ \A j \in DOMAIN list : j # i =>
           \E k \in DOMAIN list' : list'[k] = list[j]
  BY <1>2, RemoveAtOthers
<1>5. \A j \in DOMAIN list : j # i => list[j].id # list[i].id
  BY <1>2 DEF TypeOK
<1>6. TypeOK'
  <2>1. ASSUME NEW k \in DOMAIN list', NEW m \in DOMAIN list',
               list'[k].id = list'[m].id
        PROVE  k = m
    <3>1. PICK j \in DOMAIN list : /\ j = IF k < i THEN k ELSE k + 1
                                   /\ j # i /\ list'[k] = list[j]
      BY <1>4
    <3>2. PICK l \in DOMAIN list : /\ l = IF m < i THEN m ELSE m + 1
                                   /\ l # i /\ list'[m] = list[l]
      BY <1>4
    <3>3. j = l
      BY <1>2, <2>1, <3>1, <3>2 DEF TypeOK
    <3>4. k \in Nat /\ m \in Nat /\ i \in Nat
      BY <1>2, <1>4, IndexIn
    <3>. QED BY <3>1, <3>2, <3>3, <3>4
  <2>2. (new' # NoPackage) = (cli' \in {"resize", "build", "append"})
    BY <1>1, <1>3
  <2>3. heap' \subseteq (1 .. MaxAdds) \X Part
    BY <1>2 DEF TypeOK
  <2>4. \A k, m \in DOMAIN list' : list'[k].id = list'[m].id => k = m
    BY <2>1
  <2>5. new' \in Object \cup {NoPackage} /\ query' \in Query \cup {<<>>}
    BY <1>1, <1>3
  <2>. QED BY <1>1, <1>2, <1>4, <2>2, <2>3, <2>4, <2>5 DEF TypeOK
<1>7. Numbered'
  <2>1. \A k \in DOMAIN list' : list'[k].id <= made
    BY <1>4 DEF PackagesInv, Numbered
  <2>. QED BY <1>1, <1>3, <2>1 DEF PackagesInv, Numbered
<1>8. DiskTyped' /\ Building' /\ BuiltTree'
  BY <1>1, <1>3 DEF PackagesInv, DiskTyped, Building, BuiltTree
<1>9. StatusOfLastCheck'
  <2>1. ASSUME NEW k \in DOMAIN list',
               checked[Compared(list'[k])] <= list'[k].id
        PROVE  (list'[k].complete = "COMPLETED" <=>
                  IsPrefix(DataOf(list'[k].bpkg), disk[Compared(list'[k])]))
    <3>1. PICK j \in DOMAIN list : list'[k] = list[j]
      BY <1>4
    <3>. QED BY <2>1, <3>1 DEF PackagesInv, StatusOfLastCheck
  <2>. QED BY <1>1, <2>1 DEF StatusOfLastCheck, Compared
<1>10. PartsListed'
  <2>1. ASSUME NEW k \in DOMAIN list' PROVE Owned(list'[k]) \subseteq heap'
    <3>1. PICK j \in DOMAIN list : j # i /\ list'[k] = list[j]
      BY <1>4
    <3>2. Owned(list[j]) \cap Owned(list[i]) = {}
      BY <1>5, <3>1, OwnedApart
    <3>3. Owned(list[j]) \subseteq heap
      BY DEF PackagesInv, PartsListed
    <3>. QED BY <3>1, <3>2, <3>3
  <2>. QED BY <2>1 DEF PartsListed, Owned
<1>11. PartsReached'
  <2>1. process = "running"
    BY <1>1 DEF At
  <2>2. ASSUME NEW a \in heap'
        PROVE  a \in rebuilt \X {"first tree"} \/ \E k \in DOMAIN list' : a \in Owned(list'[k])
    <3>1. a \in heap /\ a \notin Owned(list[i])
      OBVIOUS
    <3>2. a \in rebuilt \X {"first tree"} \/ \E j \in DOMAIN list : a \in Owned(list[j])
      BY <1>3, <2>1, <3>1 DEF PackagesInv, PartsReached
    <3>3. ASSUME NEW j \in DOMAIN list, a \in Owned(list[j])
          PROVE  \E k \in DOMAIN list' : a \in Owned(list'[k])
      <4>1. PICK k \in DOMAIN list' : list'[k] = list[j]
        BY <1>4, <3>1, <3>3
      <4>. QED BY <3>3, <4>1
    <3>. QED BY <3>2, <3>3
  <2>. QED BY <1>1, <2>2 DEF PartsReached, Owned
<1>. QED BY <1>6, <1>7, <1>8, <1>9, <1>10, <1>11 DEF PackagesInv

\* free_packages leaves nothing but first trees.
LEMMA QuitStep ==
  ASSUME PackagesInv, Quit
  PROVE  PackagesInv'
<1>1. /\ At("prompt") /\ lock' = FALSE /\ list' = <<>> /\ process' = "quit"
      /\ heap' = heap \ UNION {Owned(list[k]) : k \in DOMAIN list}
      /\ UNCHANGED <<cli, new, query, disk, made, checked, rebuilt>>
  BY DEF Quit, history
<1>2. TypeOK
  BY DEF PackagesInv
<1>3. new = NoPackage
  BY <1>1, <1>2 DEF TypeOK, At
<1>4. list' \in Seq(Object) /\ DOMAIN list' = {}
  BY <1>1
<1>5. TypeOK'
  <2>1. heap' \subseteq (1 .. MaxAdds) \X Part
    BY <1>1, <1>2 DEF TypeOK
  <2>2. (new' # NoPackage) = (cli' \in {"resize", "build", "append"})
    BY <1>1, <1>2 DEF TypeOK
  <2>. QED BY <1>1, <1>2, <1>4, <2>1, <2>2 DEF TypeOK
<1>6. DiskTyped' /\ Numbered' /\ Building' /\ BuiltTree'
  BY <1>1, <1>3, <1>4
  DEF PackagesInv, DiskTyped, Numbered, Building, BuiltTree
<1>7. StatusOfLastCheck' /\ PartsListed'
  BY <1>4 DEF StatusOfLastCheck, PartsListed
<1>8. PartsReached'
  <2>1. process = "running"
    BY <1>1 DEF At
  <2>2. ASSUME NEW a \in heap' PROVE a \in rebuilt \X {"first tree"}
    <3>1. a \in heap /\ \A k \in DOMAIN list : a \notin Owned(list[k])
      BY <1>1
    <3>. QED BY <1>3, <2>1, <3>1 DEF PackagesInv, PartsReached
  <2>. QED BY <1>1, <2>2 DEF PartsReached
<1>. QED BY <1>5, <1>6, <1>7, <1>8 DEF PackagesInv

LEMMA PackagesInvStep == PackagesInv /\ [Next]_vars => PackagesInv'
<1> SUFFICES ASSUME PackagesInv, [Next]_vars PROVE PackagesInv'
  OBVIOUS
<1>1. TypeOK
  BY DEF PackagesInv
<1>2. CASE Stop
  BY <1>1, <1>2, QuietStep DEF Stop, At, TypeOK
<1>3. ASSUME NEW b \in Bpkg, AddLoad(b) PROVE PackagesInv'
  BY <1>3, AddLoadStep
<1>4. ASSUME NEW q \in Query, RemovePackage(q) PROVE PackagesInv'
  BY <1>1, <1>4, QuietStep DEF RemovePackage, At, TypeOK
<1>5. CASE ListPackages
  BY <1>1, <1>5, QuietStep DEF ListPackages, At, TypeOK
<1>6. CASE Quit
  BY <1>6, QuitStep
<1>7. CASE AddResize
  BY <1>7, AddResizeStep
<1>8. CASE AddBuild
  BY <1>8, AddBuildStep
<1>9. CASE AddAppend
  <2>1. CASE new.tree # NoTree
    BY <1>9, <2>1, AddAppendStep
  <2>2. CASE new.tree = NoTree
    BY <1>1, <1>9, <2>2, QuietStep DEF AddAppend, At, TypeOK
  <2>. QED BY <2>1, <2>2
<1>10. CASE DestroyPackage
  <2>1. CASE UNCHANGED <<list, heap>>
    BY <1>1, <1>10, <2>1, QuietStep DEF DestroyPackage, At, TypeOK
  <2>2. ASSUME NEW i \in FirstMatch(query),
               list' = RemoveAt(list, i), heap' = heap \ Owned(list[i])
        PROVE  PackagesInv'
    BY <1>10, <2>2, DestroyPackageStep
  <2>. QED BY <1>10, <2>1, <2>2 DEF DestroyPackage
<1>11. CASE ListPrint
  BY <1>1, <1>11, QuietStep DEF ListPrint, At, TypeOK
<1>12. CASE UNCHANGED vars
  BY <1>1, <1>12, QuietStep DEF vars, TypeOK
<1>. QED BY <1>2, <1>3, <1>4, <1>5, <1>6, <1>7, <1>8, <1>9, <1>10, <1>11,
            <1>12 DEF Next, UserInput, CliStep

LEMMA PackagesInvInit == Init => PackagesInv
<1> SUFFICES ASSUME Init PROVE PackagesInv
  OBVIOUS
<1>1. list \in Seq(Object) /\ DOMAIN list = {}
  BY DEF Init
<1>2. 0 \in 0 .. MaxAdds
  BY Bound
<1>3. checked \in [Path -> 0 .. MaxAdds] /\ \A p \in Path : checked[p] = 0
  BY <1>2 DEF Init
<1>4. TypeOK
  <2>1. (new # NoPackage) = (cli \in {"resize", "build", "append"})
    BY DEF Init
  <2>. QED BY <1>1, <1>2, <1>3, <2>1 DEF Init, TypeOK
<1>5. DiskTyped
  BY PackagesAssumption DEF Init, DiskTyped
<1>6. Numbered /\ Building /\ BuiltTree
  BY <1>1, <1>3 DEF Init, Numbered, Building, BuiltTree
<1>7. StatusOfLastCheck /\ PartsListed /\ PartsReached
  BY <1>1 DEF Init, StatusOfLastCheck, PartsListed, PartsReached
<1>. QED BY <1>4, <1>5, <1>6, <1>7 DEF PackagesInv

-----------------------------------------------------------------------------
(* Theorems.                                                               *)

\* What ADDPACKAGE, REMPACKAGE, PACKAGES and QUIT keep: who owns what, which
\* number comes last, and which tree belongs to which contents.
THEOREM PackagesInvAlways == Spec => []PackagesInv
BY PackagesInvInit, PackagesInvStep, PTL DEF Spec

\* Objects and contents keep their types, and no two listed objects are one.
THEOREM PackagesTypeCorrect == Spec => []TypeOK
<1>1. PackagesInv => TypeOK
  BY DEF PackagesInv
<1>. QED BY <1>1, PackagesInvAlways, PTL

\* The status that PACKAGES prints is that of the data file, or, when
\* initilise_tree could build nothing over that, of the file that bpkg_load
\* read, until a later ADDPACKAGE resizes the file. It holds whichever of
\* open, ftruncate, fstat and mmap fail.
THEOREM StatusIsOfTheFile == Spec => []StatusOfLastCheck
<1>1. PackagesInv => StatusOfLastCheck
  BY DEF PackagesInv
<1>. QED BY <1>1, PackagesInvAlways, PTL

\* No command frees a part of a listed package, and none loses memory but the
\* first tree of an object that initilise_tree gives a second one.
THEOREM OnlyFirstTreesLeak == Spec => []EveryPartAccounted
<1>1. PackagesInv => EveryPartAccounted
  <2> SUFFICES ASSUME PackagesInv PROVE EveryPartAccounted
    OBVIOUS
  <2> DEFINE listed == {list[i] : i \in DOMAIN list}
             reached == UNION {Owned(o) : o \in listed \cup ({new} \ {NoPackage})}
  <2>1. \A o \in listed : Owned(o) \subseteq heap
    BY DEF PackagesInv, PartsListed
  <2>2. ASSUME process \in {"running", "quit"}, NEW a \in heap \ reached
        PROVE  a \in rebuilt \X {"first tree"}
    <3>1. \A k \in DOMAIN list : a \notin Owned(list[k])
      OBVIOUS
    <3>2. new # NoPackage => a \notin Owned(new)
      OBVIOUS
    <3>. QED BY <2>2, <3>1, <3>2 DEF PackagesInv, PartsReached
  <2>. QED BY <2>1, <2>2 DEF EveryPartAccounted
<1>. QED BY <1>1, PackagesInvAlways, PTL

\* ADDPACKAGE, the only command that writes a data file, leaves a complete one
\* as it is unless it resizes it to another size.
THEOREM OnlyAddPackageDamages == Spec => OnlyResizingDamages
<1> DEFINE Damages(k) ==
             LET p == list[k].path
                 data == DataOf(list[k].bpkg)
             IN disk[p] = data /\ disk'[p] # data =>
                  /\ cli = "resize"
                  /\ Len(DataOf(new.bpkg)) # Len(data)
                  /\ p \in Named(new)
<1>1. ASSUME PackagesInv, [Next]_vars, NEW k \in DOMAIN list
      PROVE  Damages(k)
  <2>1. CASE AddResize
    <3>1. /\ TypeOK /\ DiskTyped /\ cli = "resize" /\ process = "running"
      BY <1>1, <2>1 DEF PackagesInv, AddResize, At
    <3>2. new \in Object /\ new.bpkg \in Bpkg /\ list[k].path \in Path
      BY <3>1, Fields DEF TypeOK
    <3>3. PICK path \in Named(new) :
            \/ disk' = [disk EXCEPT ![path] =
                          Resized(disk[path], Len(DataOf(new.bpkg)))]
            \/ disk' = disk
      BY <2>1 DEF AddResize
    <3>4. disk'[list[k].path] # disk[list[k].path] =>
            /\ list[k].path = path
            /\ disk'[path] = Resized(disk[path], Len(DataOf(new.bpkg)))
      BY <3>1, <3>2, <3>3 DEF DiskTyped
    <3>5. /\ disk[list[k].path] \in Seq(Block)
          /\ Len(DataOf(new.bpkg)) \in Nat
      BY <3>1, <3>2, DataSize DEF DiskTyped
    <3>6. Len(DataOf(new.bpkg)) = Len(disk[list[k].path]) =>
            Resized(disk[list[k].path], Len(DataOf(new.bpkg)))
              = disk[list[k].path]
      BY <3>5, ResizedTo
    <3>. QED BY <3>1, <3>4, <3>6
  <2>2. CASE ~AddResize
    <3>1. disk' = disk
      BY <1>1, <2>2 DEF Next, UserInput, CliStep, vars, Stop, AddLoad,
         RemovePackage, ListPackages, Quit, AddBuild, AddAppend,
         DestroyPackage, ListPrint
    <3>. QED BY <3>1
  <2>. QED BY <2>1, <2>2
<1>2. PackagesInv /\ [Next]_vars =>
        [\A i \in DOMAIN list :
           LET p == list[i].path
               data == DataOf(list[i].bpkg)
           IN disk[p] = data /\ disk'[p] # data =>
                /\ cli = "resize"
                /\ Len(DataOf(new.bpkg)) # Len(data)
                /\ p \in Named(new)]_vars
  BY <1>1
<1>. QED BY <1>2, PackagesInvAlways, PTL DEF Spec, OnlyResizingDamages
=============================================================================
