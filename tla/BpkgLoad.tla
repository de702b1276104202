------------------------------ MODULE BpkgLoad ------------------------------
(***************************************************************************)
(* pkgmain's run over one package: bpkg_load reads a .bpkg file field by   *)
(* field into memory that malloc does not clear, initilise_tree may or may *)
(* not store a tree, a query is answered, and everything is destroyed.     *)
(*                                                                         *)
(* The model keeps which fields of the object were stored: the others hold *)
(* what malloc left, and with the sanitizer of the Makefile following or   *)
(* freeing such a pointer ends the process.  Hash and chunk lines are only *)
(* counted.                                                                *)
(***************************************************************************)
EXTENDS Integers, FiniteSets

CONSTANTS MaxHashes, MaxChunks  \* bounds on the counts a .bpkg file gives

ASSUME BpkgLoadAssumption == MaxHashes \in Nat /\ MaxChunks \in Nat

Wild == -1  \* a number that was not stored

\* A .bpkg file: whether ident, filename and size are read, the numbers in
\* its nhashes and nchunks fields (Wild: not a number), and the lines that
\* follow each.
Text == [opens : BOOLEAN, header : BOOLEAN,
         nhashes : {Wild} \cup 0 .. MaxHashes, hashlines : 0 .. MaxHashes,
         nchunks : {Wild} \cup 0 .. MaxChunks, chunklines : 0 .. MaxChunks]

VARIABLES
  text,     \* the .bpkg file
  data,     \* the data file: "none" to open, "partial" or "whole"
  select,   \* the query, numbered as in arg_select, 0 for none
  process,  \* "running", "exit 0", "exit 1" or "crashed"
  step,     \* where the program is
  count,    \* obj->nhashes and obj->nchunks
  stored,   \* the pointer fields of obj that were stored
  entries,  \* the elements of obj->hashes that were stored, 0 to entries - 1
  heap      \* the allocations

inputs == <<text, data, select>>
vars == <<inputs, process, step, count, stored, entries, heap>>

Pointers == {"hashes", "chunks", "tree"}
Allocations == {"obj", "hash strings", "query"} \cup Pointers

Init ==
  /\ text \in Text
  /\ data \in {"none", "partial", "whole"}
  /\ select = 0
  /\ process = "running"
  /\ step = "args"
  /\ count = [nhashes |-> Wild, nchunks |-> Wild]
  /\ stored = {}
  /\ entries = 0
  /\ heap = {}

-----------------------------------------------------------------------------

At(s) == process = "running" /\ step = s

PowerOfTwo(n) == n \in {2 ^ i : i \in 0 .. n}

\* The words that "%64s" can take for a hash before the file ends: the hash
\* lines, "nchunks:...", "chunks:", and two for each chunk line, whose hash
\* fills the width.  So "nchunks:%u" finds its word only after exactly the
\* hash lines there are.
Words == text.hashlines + 2 + 2 * text.chunklines

\* arg_select takes the flag; one that it does not know is no query.
ArgSelect ==
  /\ At("args")
  /\ select' \in 0 .. 5
  /\ IF select' = 0 THEN process' = "exit 0" /\ UNCHANGED step
                    ELSE step' = "open" /\ UNCHANGED process
  /\ UNCHANGED <<text, data, count, stored, entries, heap>>

\* There is no flag, or -hashes_of without a hash.
ArgMissing ==
  /\ At("args")
  /\ process' = "exit 1"
  /\ UNCHANGED <<inputs, step, count, stored, entries, heap>>

OpenFails ==
  /\ At("open")
  /\ ~text.opens
  /\ step' = "unloadable"
  /\ UNCHANGED <<inputs, process, count, stored, entries, heap>>

\* The four header fields are all tried before any of them is checked.
ReadHeader ==
  /\ At("open")
  /\ text.opens
  /\ heap' = {"obj"}
  /\ count' = [count EXCEPT !.nhashes = text.nhashes]
  /\ step' = IF text.header /\ text.nhashes # Wild THEN "hashes" ELSE "give up"
  /\ UNCHANGED <<inputs, process, stored, entries>>

\* Faulty form of ReadHashes: the loop runs once too often.
ReadHashesOneMore ==
  /\ At("hashes")
  /\ stored' = stored \cup {"hashes"}
  /\ heap' = heap \cup {"hashes", "hash strings"}
  /\ entries' = count.nhashes + 1
  /\ step' = IF count.nhashes < Words THEN "nchunks" ELSE "give up"
  /\ UNCHANGED <<inputs, process, count>>

\* Each element is allocated before its line is read.
ReadHashes ==
  /\ At("hashes")
  /\ stored' = stored \cup {"hashes"}
  /\ heap' = heap \cup {"hashes"}
                  \cup (IF count.nhashes > 0 THEN {"hash strings"} ELSE {})
  /\ IF count.nhashes <= Words
     THEN entries' = count.nhashes /\ step' = "nchunks"
     ELSE entries' = Words + 1 /\ step' = "give up"
  /\ UNCHANGED <<inputs, process, count>>

\* Faulty form of ReadNChunks: any number of chunks will do.
ReadNChunksUnchecked ==
  /\ At("nchunks")
  /\ LET found == IF count.nhashes = text.hashlines THEN text.nchunks ELSE Wild
     IN /\ count' = [count EXCEPT !.nchunks = found]
        /\ IF found # Wild
           THEN /\ stored' = stored \cup {"chunks"}
                /\ heap' = heap \cup {"chunks"}
                /\ step' = "chunks"
           ELSE step' = "give up" /\ UNCHANGED <<stored, heap>>
  /\ UNCHANGED <<inputs, process, entries>>

\* Only a power of two is taken; whether it is nhashes + 1 is not checked.
ReadNChunks ==
  /\ At("nchunks")
  /\ LET found == IF count.nhashes = text.hashlines THEN text.nchunks ELSE Wild
     IN /\ count' = [count EXCEPT !.nchunks = found]
        /\ IF found # Wild /\ PowerOfTwo(found)
           THEN /\ stored' = stored \cup {"chunks"}
                /\ heap' = heap \cup {"chunks"}
                /\ step' = "chunks"
           ELSE step' = "give up" /\ UNCHANGED <<stored, heap>>
  /\ UNCHANGED <<inputs, process, entries>>

ReadChunks ==
  /\ At("chunks")
  /\ step' = IF count.nchunks <= text.chunklines THEN "tree" ELSE "give up"
  /\ UNCHANGED <<inputs, process, count, stored, entries, heap>>

\* initilise_tree returns without storing a tree when there is no data file.
\* join_merkle_tree_node_arrays runs past the end of the tree when nhashes is
\* below nchunks - 1 and past the end of the chunks when it is above nchunks;
\* over unwritten leaves strcpy may run off.
BuildTree ==
  /\ At("tree")
  /\ process' \in IF data = "none" THEN {"running"}
                  ELSE IF count.nhashes \notin {count.nchunks - 1, count.nchunks}
                       THEN {"crashed"}
                  ELSE IF data = "partial" THEN {"running", "crashed"}
                  ELSE {"running"}
  /\ IF data = "none" THEN UNCHANGED <<stored, heap>>
     ELSE stored' = stored \cup {"tree"} /\ heap' = heap \cup {"tree"}
  /\ step' = "query"
  /\ UNCHANGED <<inputs, count, entries>>

\* The queries: 1 all_hashes, 2 chunk_check, 3 min_hashes, 4 hashes_of.  An
\* unwritten leaf has no defined children to follow, nor has the first leaf
\* when nhashes = nchunks makes join count it among the inner nodes.
Query ==
  /\ At("query")
  /\ select # 5
  /\ process' \in IF select \in 2 .. 4 /\ "tree" \notin stored THEN {"crashed"}
                  ELSE IF \/ select \in 3 .. 4 /\ data = "partial"
                          \/ select = 4 /\ count.nhashes = count.nchunks
                       THEN {"running", "crashed"}
                  ELSE {"running"}
  /\ heap' = heap \cup {"query"}
  /\ step' = "print"
  /\ UNCHANGED <<inputs, count, stored, entries>>

\* 5 file_check creates a data file that is not there, empty; when it cannot,
\* it closes NULL.
FileCheck ==
  /\ At("query")
  /\ select = 5
  /\ \/ data # "none" /\ UNCHANGED <<data, process>>
     \/ data = "none" /\ data' = "partial" /\ UNCHANGED process
     \/ data = "none" /\ process' = "crashed" /\ UNCHANGED data
  /\ heap' = heap \cup {"query"}
  /\ step' = "print"
  /\ UNCHANGED <<text, select, count, stored, entries>>

\* bpkg_print_hashes, then bpkg_query_destroy.
PrintQuery ==
  /\ At("print")
  /\ heap' = heap \ {"query"}
  /\ step' = "destroy"
  /\ UNCHANGED <<inputs, process, count, stored, entries>>

\* bpkg_obj_destroy frees every field, stored or not.
Destroyable ==
  /\ count.nhashes # Wild
  /\ stored = Pointers
  /\ entries = count.nhashes

\* Faulty form of Destroy: the tree is forgotten.
DestroyKeepsTree ==
  /\ At("destroy") \/ At("give up")
  /\ IF Destroyable
     THEN heap' = heap \cap {"tree"} /\ UNCHANGED process
     ELSE process' = "crashed" /\ UNCHANGED heap
  /\ step' = IF step = "destroy" THEN "return" ELSE "unloadable"
  /\ UNCHANGED <<inputs, count, stored, entries>>

Destroy ==
  /\ At("destroy") \/ At("give up")
  /\ IF Destroyable
     THEN heap' = {} /\ UNCHANGED process
     ELSE process' = "crashed" /\ UNCHANGED heap
  /\ step' = IF step = "destroy" THEN "return" ELSE "unloadable"
  /\ UNCHANGED <<inputs, count, stored, entries>>

\* main: "Unable to load pkg and tree" and exit(1), or return 0.
Exit ==
  /\ At("unloadable") \/ At("return")
  /\ process' = IF step = "return" THEN "exit 0" ELSE "exit 1"
  /\ UNCHANGED <<inputs, step, count, stored, entries, heap>>

Next ==
  \/ ArgSelect \/ ArgMissing \/ OpenFails \/ ReadHeader \/ ReadHashes
  \/ ReadNChunks \/ ReadChunks \/ BuildTree \/ Query \/ FileCheck
  \/ PrintQuery \/ Destroy \/ Exit

Spec == Init /\ [][Next]_vars

-----------------------------------------------------------------------------
(* Properties.                                                             *)

WellFormed ==
  /\ text.opens /\ text.header
  /\ text.nhashes = text.hashlines
  /\ text.nchunks = text.chunklines
  /\ text.nchunks = text.nhashes + 1
  /\ PowerOfTwo(text.nchunks)

\* Every variable keeps its type, and pointers that were stored lead to
\* allocations until they are destroyed.
TypeOK ==
  /\ process \in {"running", "exit 0", "exit 1", "crashed"}
  /\ select \in 0 .. 5
  /\ step \in {"args", "open", "hashes", "nchunks", "chunks", "tree", "query",
               "print", "destroy", "return", "give up", "unloadable"}
  /\ count \in [nhashes : {Wild} \cup 0 .. MaxHashes,
                nchunks : {Wild} \cup 0 .. MaxChunks]
  /\ stored \subseteq Pointers
  /\ entries \in 0 .. MaxHashes
  /\ heap \subseteq Allocations
  /\ step \notin {"return", "unloadable"} =>
       stored \subseteq heap /\ (entries > 0 => "hash strings" \in heap)

\* bpkg_load, initilise_tree and bpkg_obj_destroy together:
\* a query of a well-formed package whose data are all there is answered
\* without touching a field that was not stored, and with exit status 0
\* nothing is left.
GoodPackageServed ==
  WellFormed /\ data = "whole" /\ select # 0 =>
    /\ process \notin {"crashed", "exit 1"}
    /\ process = "exit 0" => heap = {}

\* What the exit status tells, whatever the .bpkg file says, although
\* bpkg_load never compares nhashes with nchunks and gives up through
\* bpkg_obj_destroy: 0 after a query means that every field was stored and
\* given back, that the counts are those of the lines and that the hashes and
\* the leaves fit one tree (or one hash too many); 1 means that there was no
\* query or no file, for a file that opens and does not load ends in a crash.
OnlyLoadedServed ==
  /\ process = "exit 0" /\ select # 0 =>
       /\ stored = Pointers /\ heap = {}
       /\ entries = text.hashlines /\ text.nhashes = text.hashlines
       /\ text.nchunks <= text.chunklines /\ PowerOfTwo(text.nchunks)
       /\ text.nhashes \in {text.nchunks - 1, text.nchunks}
  /\ process = "exit 1" => select = 0 \/ ~text.opens
=============================================================================
