--------------------------- MODULE BpkgLoadProofs ---------------------------
(***************************************************************************)
(* What holds of loading, querying and destroying a package for every      *)
(* bound on its counts.                                                    *)
(***************************************************************************)
EXTENDS BpkgLoad, TLAPS

\* The package never changes; the data file may be created.
InputsOK ==
  /\ text \in Text
  /\ data \in {"none", "partial", "whole"}

\* What bpkg_load has stored when it comes to each field.
Stages ==
  /\ step = "args" => select = 0 /\ stored = {} /\ entries = 0
  /\ step = "open" => process = "running" /\ stored = {} /\ entries = 0
  /\ step \in {"hashes", "nchunks", "chunks", "tree", "query", "print",
               "destroy"} => /\ text.opens /\ text.header
                             /\ count.nhashes = text.nhashes
                             /\ count.nhashes # Wild
  /\ step = "hashes" => stored = {}
  /\ step = "nchunks" => stored = {"hashes"} /\ entries = count.nhashes
  /\ step = "chunks" => stored = {"hashes", "chunks"}
  /\ step \in {"chunks", "tree", "query", "print", "destroy"} =>
       /\ {"hashes", "chunks"} \subseteq stored
       /\ entries = count.nhashes
       /\ count.nhashes = text.hashlines
       /\ count.nchunks = text.nchunks
       /\ count.nchunks # Wild
       /\ PowerOfTwo(count.nchunks)
  /\ step \in {"tree", "query", "print", "destroy"} =>
       count.nchunks <= text.chunklines

\* A query of a well-formed package over all its data takes the whole way.
GoodStages ==
  WellFormed /\ data = "whole" /\ select # 0 =>
    /\ step \notin {"give up", "unloadable"}
    /\ process \in {"running", "exit 0"}
    /\ process = "exit 0" => step = "return"
    /\ step \in {"query", "print", "destroy"} => stored = Pointers
    /\ step = "return" => heap = {}

\* An object that was loaded, whose tree join has built within its bounds,
\* and that was destroyed.
ServedAndFreed ==
  /\ stored = Pointers /\ heap = {}
  /\ entries = text.hashlines /\ text.nhashes = text.hashlines
  /\ text.nchunks <= text.chunklines /\ PowerOfTwo(text.nchunks)
  /\ text.nhashes \in {text.nchunks - 1, text.nchunks}

\* The tree is stored last, so bpkg_load never gives up with one, and what it
\* destroys then is never whole.
Ends ==
  /\ step \in {"args", "open", "hashes", "nchunks", "chunks", "tree",
               "give up"} => "tree" \notin stored
  /\ step \in {"query", "print", "destroy"} /\ process # "crashed"
       /\ "tree" \in stored =>
       count.nhashes \in {count.nchunks - 1, count.nchunks}
  /\ step = "return" /\ process # "crashed" => ServedAndFreed
  /\ step = "unloadable" /\ process # "crashed" => ~text.opens
  /\ process = "exit 0" => select = 0 \/ step = "return"
  /\ process = "exit 1" => select = 0 \/ ~text.opens

LoadInv == TypeOK /\ InputsOK /\ Stages /\ GoodStages /\ Ends

-----------------------------------------------------------------------------

LEMMA LoadInit == Init => LoadInv
  BY BpkgLoadAssumption
  DEF Init, LoadInv, TypeOK, InputsOK, Stages, GoodStages, Ends,
      ServedAndFreed, WellFormed, Pointers, Allocations, Wild

\* The numbers in a .bpkg file and of its lines.
LEMMA TextNumbers ==
  InputsOK => /\ text.nhashes \in {Wild} \cup 0 .. MaxHashes
              /\ text.nchunks \in {Wild} \cup 0 .. MaxChunks
              /\ text.hashlines \in Nat
              /\ text.chunklines \in Nat
  BY BpkgLoadAssumption DEF InputsOK, Text

\* The words that are left after the header are counted by a number.
LEMMA WordsNat == InputsOK => Words \in Nat /\ text.hashlines <= Words
  BY TextNumbers DEF Words

\* A well-formed file has the lines that its numbers say.
LEMMA WellFormedNumbers ==
  InputsOK /\ WellFormed => /\ text.nchunks \in Nat
                            /\ text.nchunks # Wild
                            /\ text.nchunks <= text.chunklines
                            /\ text.nhashes = text.hashlines
                            /\ PowerOfTwo(text.nchunks)
<1> SUFFICES ASSUME InputsOK, WellFormed
             PROVE  /\ text.nchunks \in Nat
                    /\ text.nchunks # Wild
                    /\ text.nchunks <= text.chunklines
  BY DEF WellFormed
<1>1. text.nchunks \in Nat /\ text.nchunks = text.chunklines
  BY TextNumbers DEF WellFormed
<1>. QED BY <1>1 DEF Wild

\* Its hashes are one fewer than its chunks.
LEMMA WellFormedCounts ==
  InputsOK /\ WellFormed => /\ text.nhashes = text.nchunks - 1
                            /\ text.nhashes # text.nchunks
<1> SUFFICES ASSUME InputsOK, WellFormed
             PROVE  /\ text.nhashes = text.nchunks - 1
                    /\ text.nhashes # text.nchunks
  OBVIOUS
<1>1. text.nhashes = text.hashlines /\ text.nchunks = text.nhashes + 1
  BY DEF WellFormed
<1>2. text.hashlines \in Nat
  BY TextNumbers
<1>. QED BY <1>1, <1>2

\* Each action keeps what the end of the program tells.
LEMMA EndsStep == LoadInv /\ [Next]_vars => Ends'
<1> SUFFICES ASSUME LoadInv, [Next]_vars PROVE Ends'
  OBVIOUS
<1> USE DEF LoadInv, Ends, inputs, At
<1>1. CASE ArgSelect \/ ArgMissing \/ OpenFails \/ ReadHeader
  <2>1. CASE ArgSelect
    BY <2>1 DEF ArgSelect
  <2>2. CASE ArgMissing
    BY <2>2 DEF ArgMissing, Stages
  <2>3. CASE OpenFails
    BY <2>3 DEF OpenFails
  <2>4. CASE ReadHeader
    BY <2>4 DEF ReadHeader
  <2>. QED BY <1>1, <2>1, <2>2, <2>3, <2>4
<1>2. CASE ReadHashes \/ ReadNChunks \/ ReadChunks
  <2>1. CASE ReadHashes
    <3>1. /\ step = "hashes" /\ step' \in {"nchunks", "give up"}
          /\ "tree" \notin stored' /\ process' = "running"
      BY <2>1 DEF ReadHashes
    <3>. QED BY <3>1
  <2>2. CASE ReadNChunks
    <3>1. step = "nchunks" /\ process = "running" /\ process' = process
      BY <2>2 DEF ReadNChunks
    <3>2. \/ step' = "chunks" /\ stored' = stored \cup {"chunks"}
          \/ step' = "give up" /\ stored' = stored
      BY <2>2 DEF ReadNChunks
    <3>3. "tree" \notin stored
      BY <3>1
    <3>. QED BY <3>1, <3>2, <3>3
  <2>3. CASE ReadChunks
    BY <2>3 DEF ReadChunks
  <2>. QED BY <1>2, <2>1, <2>2, <2>3
<1>3. CASE BuildTree
  <2>1. /\ step = "tree" /\ step' = "query" /\ "tree" \notin stored
        /\ process = "running" /\ process' \in {"running", "crashed"}
        /\ UNCHANGED <<text, data, select, count>>
    BY <1>3 DEF BuildTree
  <2>2. process' # "crashed" /\ "tree" \in stored' =>
          count.nhashes \in {count.nchunks - 1, count.nchunks}
    BY <1>3, <2>1 DEF BuildTree
  <2>. QED BY <2>1, <2>2
<1>4. CASE Query \/ FileCheck \/ PrintQuery
  BY <1>4 DEF Query, FileCheck, PrintQuery
<1>5. CASE Destroy
  <2>1. CASE step = "give up"
    BY <1>5, <2>1 DEF Destroy, Destroyable, Pointers
  <2>2. CASE step = "destroy" /\ Destroyable
    <3>1. /\ stored' = Pointers /\ heap' = {} /\ step' = "return"
          /\ process' = "running" /\ UNCHANGED <<text, count, entries>>
      BY <1>5, <2>2 DEF Destroy, Destroyable
    <3>2. count.nhashes \in {count.nchunks - 1, count.nchunks}
      BY <1>5, <2>2 DEF Destroy, Destroyable, Pointers
    <3>3. /\ entries = text.hashlines /\ text.nhashes = text.hashlines
          /\ text.nchunks <= text.chunklines /\ PowerOfTwo(text.nchunks)
          /\ text.nhashes = count.nhashes /\ text.nchunks = count.nchunks
      BY <2>2 DEF Stages
    <3>4. ServedAndFreed'
      BY <3>1, <3>2, <3>3 DEF ServedAndFreed
    <3>. QED BY <3>1, <3>4
  <2>3. CASE step = "destroy" /\ ~Destroyable
    BY <1>5, <2>3 DEF Destroy
  <2>. QED BY <1>5, <2>1, <2>2, <2>3 DEF Destroy
<1>6. CASE Exit
  BY <1>6 DEF Exit, ServedAndFreed
<1>7. CASE UNCHANGED vars
  BY <1>7 DEF vars, ServedAndFreed
<1>. QED BY <1>1, <1>2, <1>3, <1>4, <1>5, <1>6, <1>7 DEF Next

\* Each action keeps the type invariant and the stages of loading.
LEMMA LoadStep == LoadInv /\ [Next]_vars => LoadInv'
<1> SUFFICES ASSUME LoadInv, [Next]_vars PROVE LoadInv'
  OBVIOUS
<1> USE BpkgLoadAssumption DEF LoadInv, InputsOK, inputs, At
<1>1. InputsOK' /\ Ends'
  <2>1. InputsOK'
    BY DEF Next, vars, ArgSelect, ArgMissing, OpenFails, ReadHeader,
           ReadHashes, ReadNChunks, ReadChunks, BuildTree, Query, FileCheck,
           PrintQuery, Destroy, Exit
  <2>. QED BY <2>1, EndsStep
<1>2. CASE OpenFails
  <2>1. TypeOK' /\ Stages'
    BY <1>2 DEF OpenFails, TypeOK, Stages
  <2>2. GoodStages'
    BY <1>2 DEF OpenFails, GoodStages, WellFormed
  <2>. QED BY <1>1, <2>1, <2>2
<1>3. CASE ReadHeader
  <2>1. /\ count' = [count EXCEPT !.nhashes = text.nhashes]
        /\ text.nhashes \in {Wild} \cup 0 .. MaxHashes
    BY <1>3 DEF ReadHeader, Text
  <2>2. count' \in [nhashes : {Wild} \cup 0 .. MaxHashes,
                    nchunks : {Wild} \cup 0 .. MaxChunks]
        /\ count'.nhashes = text.nhashes
    BY <2>1 DEF TypeOK
  <2>3. TypeOK'
    <3>1. /\ stored' = {} /\ entries' = 0 /\ heap' = {"obj"}
          /\ step' \in {"hashes", "give up"} /\ UNCHANGED <<process, select>>
      BY <1>3 DEF ReadHeader, Stages
    <3>2. 0 \in 0 .. MaxHashes /\ ~(0 > 0)
      OBVIOUS
    <3>. QED BY <2>2, <3>1, <3>2 DEF TypeOK, Allocations
  <2>4. Stages'
    BY <1>3, <2>2 DEF ReadHeader, Stages
  <2>5. WellFormed => text.nhashes # Wild
    BY DEF WellFormed, Text, Wild
  <2>6. GoodStages'
    BY <1>3, <2>5 DEF ReadHeader, GoodStages, WellFormed
  <2>. QED BY <1>1, <2>3, <2>4, <2>6
<1>4. CASE ReadHashes
  <2>1. /\ Words \in Nat
        /\ count.nhashes \in 0 .. MaxHashes /\ count.nhashes = text.nhashes
    BY <1>4, WordsNat DEF ReadHashes, Stages, TypeOK
  <2>2. entries' \in 0 .. MaxHashes
    <3>1. ASSUME NEW n \in 0 .. MaxHashes, NEW w \in Nat, ~(n <= w)
          PROVE  w + 1 \in 0 .. MaxHashes
      BY <3>1
    <3>2. CASE count.nhashes <= Words
      BY <1>4, <2>1, <3>2 DEF ReadHashes
    <3>3. CASE ~(count.nhashes <= Words)
      BY <1>4, <2>1, <3>1, <3>3 DEF ReadHashes
    <3>. QED BY <3>2, <3>3
  <2>3. WellFormed => count.nhashes <= Words
    BY <2>1, WordsNat, WellFormedNumbers
  <2>4. TypeOK'
    <3>1. entries' > 0 => "hash strings" \in heap'
      <4>1. CASE count.nhashes > 0
        BY <1>4, <4>1 DEF ReadHashes
      <4>2. CASE ~(count.nhashes > 0)
        <5>1. count.nhashes = 0 /\ count.nhashes <= Words
          BY <2>1, <4>2
        <5>2. entries' = 0
          BY <1>4, <5>1 DEF ReadHashes
        <5>3. ~(0 > 0)
          OBVIOUS
        <5>. QED BY <5>2, <5>3
      <4>. QED BY <4>1, <4>2
    <3>2. /\ stored' \subseteq Pointers /\ heap' \subseteq Allocations
          /\ stored' \subseteq heap'
      BY <1>4 DEF ReadHashes, TypeOK, Pointers, Allocations
    <3>3. /\ step' \in {"nchunks", "give up"} /\ process' = "running"
          /\ UNCHANGED <<select, count>>
      BY <1>4 DEF ReadHashes
    <3>. QED BY <2>2, <3>1, <3>2, <3>3 DEF TypeOK
  <2>5. Stages'
    BY <1>4 DEF ReadHashes, Stages
  <2>6. GoodStages'
    BY <1>4, <2>3 DEF ReadHashes, GoodStages, WellFormed
  <2>. QED BY <1>1, <2>4, <2>5, <2>6
<1>5. CASE ReadNChunks
  <2> DEFINE found == IF count.nhashes = text.hashlines THEN text.nchunks
                                                        ELSE Wild
  <2>1. found \in {Wild} \cup 0 .. MaxChunks
    BY DEF Text
  <2>2. TypeOK'
    BY <1>5, <2>1 DEF ReadNChunks, TypeOK, Pointers, Allocations
  <2>3. Stages'
    BY <1>5, <2>1 DEF ReadNChunks, TypeOK, Stages
  <2>4. WellFormed => /\ found = text.nchunks /\ found # Wild
                      /\ PowerOfTwo(found)
    BY <1>5, WellFormedNumbers DEF ReadNChunks, Stages
  <2>5. GoodStages'
    BY <1>5, <2>4 DEF ReadNChunks, GoodStages, WellFormed
  <2>. QED BY <1>1, <2>2, <2>3, <2>5
<1>6. CASE ReadChunks
  <2>1. TypeOK' /\ Stages'
    BY <1>6 DEF ReadChunks, TypeOK, Stages
  <2>2. WellFormed => count.nchunks <= text.chunklines
    BY <1>6, WellFormedNumbers DEF ReadChunks, Stages
  <2>3. GoodStages'
    BY <1>6, <2>2 DEF ReadChunks, GoodStages, WellFormed
  <2>. QED BY <1>1, <2>1, <2>3
<1>7. CASE BuildTree
  <2>1. TypeOK'
    BY <1>7 DEF BuildTree, TypeOK, Pointers, Allocations
  <2>2. Stages'
    BY <1>7 DEF BuildTree, Stages
  <2>3. ASSUME WellFormed, data = "whole", select # 0
        PROVE  process' = "running" /\ stored' = Pointers
    <3>1. count.nhashes = count.nchunks - 1
      <4>1. count.nhashes = text.nhashes /\ count.nchunks = text.nchunks
        BY <1>7 DEF BuildTree, Stages
      <4>. QED BY <2>3, <4>1, WellFormedCounts
    <3>2. stored = {"hashes", "chunks"} \/ stored = Pointers
      BY <1>7 DEF BuildTree, Stages, TypeOK, Pointers
    <3>. QED BY <1>7, <2>3, <3>1, <3>2 DEF BuildTree, Pointers
  <2>4. GoodStages'
    BY <1>7, <2>3 DEF BuildTree, GoodStages, WellFormed
  <2>. QED BY <1>1, <2>1, <2>2, <2>4
<1>8. CASE Query
  <2>1. TypeOK' /\ Stages'
    BY <1>8 DEF Query, TypeOK, Stages, Pointers, Allocations
  <2>2. ASSUME WellFormed, data = "whole", select # 0
        PROVE  process' = "running"
    <3>1. "tree" \in stored
      BY <1>8, <2>2 DEF Query, GoodStages, Pointers
    <3>2. count.nhashes # count.nchunks
      <4>1. count.nhashes = text.nhashes /\ count.nchunks = text.nchunks
        BY <1>8 DEF Query, Stages
      <4>. QED BY <2>2, <4>1, WellFormedCounts
    <3>. QED BY <1>8, <2>2, <3>1, <3>2 DEF Query
  <2>3. GoodStages'
    BY <1>8, <2>2 DEF Query, GoodStages, WellFormed
  <2>. QED BY <1>1, <2>1, <2>3
<1>9. CASE PrintQuery
  <2>1. TypeOK'
    BY <1>9 DEF PrintQuery, TypeOK, Pointers
  <2>2. Stages'
    BY <1>9 DEF PrintQuery, Stages
  <2>3. GoodStages'
    BY <1>9 DEF PrintQuery, GoodStages, WellFormed
  <2>. QED BY <1>1, <2>1, <2>2, <2>3
<1>10. CASE Destroy
  <2>1. TypeOK' /\ Stages'
    BY <1>10 DEF Destroy, TypeOK, Stages
  <2>2. WellFormed /\ data = "whole" /\ select # 0 =>
          Destroyable /\ step = "destroy"
    BY <1>10 DEF Destroy, Destroyable, Stages, GoodStages
  <2>3. GoodStages'
    BY <1>10, <2>2 DEF Destroy, GoodStages, WellFormed
  <2>. QED BY <1>1, <2>1, <2>3
<1>11. CASE Exit
  <2>1. TypeOK'
    BY <1>11 DEF Exit, TypeOK
  <2>2. Stages'
    BY <1>11 DEF Exit, Stages
  <2>3. GoodStages'
    BY <1>11 DEF Exit, GoodStages, WellFormed
  <2>. QED BY <1>1, <2>1, <2>2, <2>3
<1>12. CASE UNCHANGED vars
  <2>1. TypeOK'
    BY <1>12 DEF vars, TypeOK
  <2>2. Stages'
    BY <1>12 DEF vars, Stages
  <2>3. GoodStages'
    BY <1>12 DEF vars, GoodStages, WellFormed
  <2>. QED BY <1>1, <2>1, <2>2, <2>3
<1>13. CASE ArgSelect
  <2>1. TypeOK'
    BY <1>13 DEF ArgSelect, TypeOK
  <2>2. Stages'
    BY <1>13 DEF ArgSelect, Stages
  <2>3. GoodStages'
    BY <1>13 DEF ArgSelect, GoodStages, WellFormed
  <2>. QED BY <1>1, <2>1, <2>2, <2>3
<1>14. CASE ArgMissing
  <2>1. TypeOK' /\ Stages'
    BY <1>14 DEF ArgMissing, TypeOK, Stages
  <2>2. GoodStages'
    BY <1>14 DEF ArgMissing, Stages, GoodStages
  <2>. QED BY <1>1, <2>1, <2>2
<1>15. CASE FileCheck
  <2>1. TypeOK'
    BY <1>15 DEF FileCheck, TypeOK, Allocations
  <2>2. Stages'
    BY <1>15 DEF FileCheck, Stages
  <2>3. GoodStages'
    BY <1>15 DEF FileCheck, GoodStages, WellFormed
  <2>. QED BY <1>1, <2>1, <2>2, <2>3
<1>. QED
  BY <1>2, <1>3, <1>4, <1>5, <1>6, <1>7, <1>8, <1>9, <1>10, <1>11, <1>12,
     <1>13, <1>14, <1>15
  DEF Next

\* Loading, querying and destroying keep LoadInv.
THEOREM LoadAlways == Spec => []LoadInv
  BY LoadInit, LoadStep, PTL DEF Spec

\* No count, and no number of stored hashes, leaves its range (ReadHashes
\* stops one element after the last word of the file), and until the object
\* is destroyed what was stored leads to allocations.
THEOREM LoadTypeCorrect == Spec => []TypeOK
<1>1. LoadInv => TypeOK
  BY DEF LoadInv
<1>. QED BY <1>1, LoadAlways, PTL

\* Whatever the .bpkg file and the data file hold, exit status 0 after a
\* query means that a whole object with agreeing counts was read, queried and
\* freed, and exit status 1 that there was no query or no file to open.
THEOREM ExitTellsOfLoading == Spec => []OnlyLoadedServed
<1>1. LoadInv => OnlyLoadedServed
  BY DEF LoadInv, Ends, ServedAndFreed, OnlyLoadedServed
<1>. QED BY <1>1, LoadAlways, PTL

\* A query of a well-formed package over all its data is answered without a
\* crash and leaves nothing allocated, whatever its size.
THEOREM GoodPackagesAreServed == Spec => []GoodPackageServed
<1>1. LoadInv => GoodPackageServed
  BY DEF LoadInv, GoodStages, GoodPackageServed
<1>. QED BY <1>1, LoadAlways, PTL
=============================================================================
