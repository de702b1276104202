------------------------------ MODULE Packages ------------------------------
(***************************************************************************)
(* The package list of btide and the data files it manages: ADDPACKAGE,    *)
(* REMPACKAGE, PACKAGES and QUIT, all run by the CLI thread alone.         *)
(*                                                                         *)
(* File contents are sequences of blocks, one block per chunk.  A package  *)
(* is complete when the root hash of its tree is the expected one, that    *)
(* is, with a hash that does not collide, when the tree was built from the *)
(* package's own data.                                                     *)
(*                                                                         *)
(* process_input appends to file_path and data_file with strcat before     *)
(* anything was stored in them, so a path may start with bytes left on the *)
(* stack: the data file is either the one in the configured directory or   *)
(* one of a stray name.  MaxAdds bounds how often ADDPACKAGE succeeds in   *)
(* parsing a .bpkg file.                                                   *)
(***************************************************************************)
EXTENDS Integers, Sequences, SequencesExt

CONSTANTS
  Bpkg,       \* well-formed .bpkg files
  File,       \* the filenames that they give for their data
  Ident(_),   \* the ident of a .bpkg file, a sequence
  DataOf(_),  \* the data it describes, one block per chunk
  FileOf(_),  \* the filename it gives
  Query,      \* what users type after REMPACKAGE, sequences like idents
  Block,      \* what a chunk's bytes may be
  Zero,       \* a block of zeros
  Contents,   \* what data files may hold before btide starts
  NoTree,     \* the tree pointer of an object was never stored
  Garbage,    \* a tree built over leaves nobody wrote
  NoPackage,  \* no package is being added
  MaxAdds

Cwd(f) == <<"cwd", f>>          \* the name as it is: bpkg_load opens it
InDirectory(f) == <<"dir", f>>  \* prefixed with the configured directory
Stray == <<"stray">>            \* prefixed with bytes from the stack as well
Path == {Cwd(f) : f \in File} \cup {InDirectory(f) : f \in File} \cup {Stray}
Absent == <<>>                  \* no file, or one without a byte to map

ASSUME PackagesAssumption ==
  /\ \A b \in Bpkg : FileOf(b) \in File /\ DataOf(b) \in Seq(Block) \ {<<>>}
  /\ Zero \in Block
  /\ Absent \in Contents /\ Contents \subseteq Seq(Block)
  /\ Garbage \notin Seq(Block)
  /\ MaxAdds \in Nat

VARIABLES
  process,  \* "running", or how the process ended
  cli,      \* where the CLI thread is
  lock,     \* packages_mutex is held
  list,     \* the packages after the sentinel, in order
  new,      \* ADDPACKAGE: the object it is building
  query,    \* REMPACKAGE: its argument
  disk,     \* the contents of each data file
  heap,     \* the allocations: the parts of object number n
  made,     \* how many objects bpkg_load has returned
  checked,  \* history: the last object file_checker resized a path for
  rebuilt   \* history: the objects that got a second tree

history == <<checked, rebuilt>>
vars == <<process, cli, lock, list, new, query, disk, heap, made, history>>

Part == {"object", "node", "first tree", "second tree"}

\* initilise_tree over contents c: it returns without a tree when open, fstat
\* or mmap fails, as mmap does when there is nothing to map; when chunks
\* reach past the end it hashes unwritten leaves.
TreesOver(c, b) ==
  {NoTree} \cup
    IF c = Absent THEN {}
    ELSE IF Len(c) < Len(DataOf(b)) THEN {Garbage}
    ELSE {SubSeq(c, 1, Len(DataOf(b)))}

Object == [id : 1 .. MaxAdds, bpkg : Bpkg, path : Path,
           tree : Seq(Block) \cup {NoTree, Garbage},
           held : {"none", "first tree", "second tree"},
           complete : {"COMPLETED", "INCOMPLETE"}]

ASSUME NoPackageAssumption == NoPackage \notin Object

\* Every variable keeps its type, and no two objects have one number.
TypeOK ==
  /\ process \in {"running", "quit", "ended", "crashed"}
  /\ cli \in {"prompt", "resize", "build", "append", "remove", "list"}
  /\ lock \in BOOLEAN
  /\ list \in Seq(Object)
  /\ new \in Object \cup {NoPackage}
  /\ (new # NoPackage) = (cli \in {"resize", "build", "append"})
  /\ query \in Query \cup {<<>>}
  /\ heap \subseteq (1 .. MaxAdds) \X Part
  /\ made \in 0 .. MaxAdds
  /\ checked \in [Path -> 0 .. MaxAdds]
  /\ rebuilt \subseteq 1 .. MaxAdds
  /\ \A i, j \in DOMAIN list : list[i].id = list[j].id => i = j

Init ==
  /\ process = "running"
  /\ cli = "prompt"
  /\ lock = FALSE
  /\ list = <<>>
  /\ new = NoPackage
  /\ query = <<>>
  /\ disk \in {d \in [Path -> Contents] : d[Stray] = Absent}
  /\ heap = {}
  /\ made = 0
  /\ checked = [p \in Path |-> 0]
  /\ rebuilt = {}

-----------------------------------------------------------------------------

At(step) == process = "running" /\ cli = step

\* ftruncate(2), after open with O_CREAT.
Resized(c, n) == [i \in 1 .. n |-> IF i <= Len(c) THEN c[i] ELSE Zero]

\* The names that ADDPACKAGE's strcat can give the data file.
Named(o) == {InDirectory(FileOf(o.bpkg)), Stray}

\* Over unwritten leaves initilise_tree may run off the heap.
Outcomes(tree) ==
  IF tree = Garbage THEN {"running", "crashed"} ELSE {"running"}

Owned(o) == {<<o.id, "object">>, <<o.id, "node">>, <<o.id, o.held>>}

Status(o) == IF o.tree = DataOf(o.bpkg) THEN "COMPLETED" ELSE "INCOMPLETE"

Matches(o, q) == IsPrefix(q, Ident(o.bpkg))

FirstMatch(q) ==
  {i \in DOMAIN list :
     Matches(list[i], q) /\ \A j \in 1 .. i - 1 : ~Matches(list[j], q)}

-----------------------------------------------------------------------------
(* Faulty forms of the actions below, one slip each, that Spec does not    *)
(* use: put in place of the correct action, each breaks a property.        *)

\* file_checker empties the data file before it gives it its size.
AddResizeTruncates ==
  /\ At("resize")
  /\ \E path \in Named(new) :
       /\ new' = [new EXCEPT !.path = path]
       /\ \/ /\ disk' = [disk EXCEPT ![path] =
                            Resized(<<>>, Len(DataOf(new.bpkg)))]
             /\ checked' = [checked EXCEPT ![path] = new.id]
          \/ UNCHANGED <<disk, checked>>
  /\ cli' = "build"
  /\ UNCHANGED <<process, lock, list, query, heap, made, rebuilt>>

\* The object keeps its first tree although a second one was built.
AddBuildOldTree ==
  /\ At("build")
  /\ \E tree \in TreesOver(disk[new.path], new.bpkg) \ {NoTree} :
       /\ new' = [new EXCEPT !.held = "second tree"]
       /\ heap' = heap \cup {<<new.id, "second tree">>}
       /\ process' \in Outcomes(tree)
  /\ rebuilt' = rebuilt \cup {new.id}
  /\ cli' = "append"
  /\ UNCHANGED <<lock, list, query, disk, made, checked>>

\* add_package lost its else: the first package is also its own successor.
AddAppendTwice ==
  /\ At("append")
  /\ new.tree # NoTree
  /\ lock = FALSE
  /\ LET o == [new EXCEPT !.complete = Status(new)] IN
       list' = IF list = <<>> THEN <<o, o>> ELSE Append(list, o)
  /\ heap' = heap \cup {<<new.id, "node">>}
  /\ new' = NoPackage
  /\ cli' = "prompt"
  /\ UNCHANGED <<process, lock, query, disk, made, history>>

DestroyedAs(kept, leaves) ==
  /\ At("remove")
  /\ lock = FALSE
  /\ \/ \E i \in FirstMatch(query) :
          /\ list' = RemoveAt(list, i)
          /\ heap' = heap \ (Owned(list[i]) \ {<<list[i].id, kept>>})
          /\ UNCHANGED lock
     \/ FirstMatch(query) = {} /\ lock' = leaves /\ UNCHANGED <<list, heap>>
  /\ query' = <<>>
  /\ cli' = "prompt"
  /\ UNCHANGED <<process, new, disk, made, history>>

\* remove_package does not free the list node.
DestroyPackageNodeKept == DestroyedAs("node", FALSE)

\* remove_package returns without unlocking when nothing matches.
DestroyPackageLocked == DestroyedAs("none", TRUE)

-----------------------------------------------------------------------------
(* The commands.                                                           *)

\* End of input (main returns 1), or an ADDPACKAGE that ends the process: the
\* directory cannot be made (exit 3), strcat runs off a path that nothing was
\* stored in, or a .bpkg file does not parse and bpkg_obj_destroy frees fields
\* that were not stored.  A .bpkg file that cannot be opened changes nothing.
Stop ==
  /\ At("prompt")
  /\ process' \in {"ended", "crashed"}
  /\ UNCHANGED <<cli, lock, list, new, query, disk, heap, made, history>>

\* bpkg_load parses b and builds a first tree over the file of that name in
\* the working directory, if it can.
AddLoad(b) ==
  /\ At("prompt")
  /\ made < MaxAdds
  /\ \E tree \in TreesOver(disk[Cwd(FileOf(b))], b) :
       LET part == IF tree = NoTree THEN "none" ELSE "first tree" IN
       /\ new' = [id |-> made + 1, bpkg |-> b, path |-> Cwd(FileOf(b)),
                  tree |-> tree, held |-> part, complete |-> "INCOMPLETE"]
       /\ heap' = heap \cup ({<<made + 1, "object">>, <<made + 1, part>>}
                               \ {<<made + 1, "none">>})
       /\ process' \in Outcomes(tree)
  /\ made' = made + 1
  /\ cli' = "resize"
  /\ UNCHANGED <<lock, list, query, disk, history>>

\* file_checker creates the data file or gives it its size; when open or
\* ftruncate fails nothing changes, and process_input goes on all the same.
AddResize ==
  /\ At("resize")
  /\ \E path \in Named(new) :
       /\ new' = [new EXCEPT !.path = path]
       /\ \/ /\ disk' = [disk EXCEPT ![path] =
                            Resized(disk[path], Len(DataOf(new.bpkg)))]
             /\ checked' = [checked EXCEPT ![path] = new.id]
          \/ UNCHANGED <<disk, checked>>
  /\ cli' = "build"
  /\ UNCHANGED <<process, lock, list, query, heap, made, rebuilt>>

\* initilise_tree over the data file: it stores a second tree in the object
\* without freeing the first, or returns early and the object keeps what
\* bpkg_load left in it.
AddBuild ==
  /\ At("build")
  /\ \E tree \in TreesOver(disk[new.path], new.bpkg) :
       \/ tree = NoTree /\ UNCHANGED <<process, new, heap, rebuilt>>
       \/ /\ tree # NoTree
          /\ new' = [new EXCEPT !.tree = tree, !.held = "second tree"]
          /\ heap' = heap \cup {<<new.id, "second tree">>}
          /\ rebuilt' = rebuilt \cup {new.id}
          /\ process' \in Outcomes(tree)
  /\ cli' = "append"
  /\ UNCHANGED <<lock, list, query, disk, made, checked>>

\* add_package compares the root hashes through obj->tree, then locks its own
\* copy of packages_mutex: a copy of a locked mutex is locked for ever, and
\* nobody else sees the copy.
AddAppend ==
  /\ At("append")
  /\ \/ /\ new.tree = NoTree
        /\ process' = "crashed"
        /\ UNCHANGED <<cli, list, new, heap>>
     \/ /\ new.tree # NoTree
        /\ lock = FALSE
        /\ list' = Append(list, [new EXCEPT !.complete = Status(new)])
        /\ heap' = heap \cup {<<new.id, "node">>}
        /\ new' = NoPackage
        /\ cli' = "prompt"
        /\ UNCHANGED process
  /\ UNCHANGED <<lock, query, disk, made, history>>

\* REMPACKAGE: queries shorter than 20 characters are refused, and Query
\* holds the others.
RemovePackage(q) ==
  /\ At("prompt")
  /\ query' = q
  /\ cli' = "remove"
  /\ UNCHANGED <<process, lock, list, new, disk, heap, made, history>>

\* The first package whose ident starts with the query leaves the list and
\* is destroyed; packages_mutex is free again when remove_package returns.
DestroyPackage ==
  /\ At("remove")
  /\ lock = FALSE
  /\ \/ \E i \in FirstMatch(query) :
          /\ list' = RemoveAt(list, i)
          /\ heap' = heap \ Owned(list[i])
     \/ FirstMatch(query) = {} /\ UNCHANGED <<list, heap>>
  /\ query' = <<>>
  /\ cli' = "prompt"
  /\ UNCHANGED <<process, lock, new, disk, made, history>>

ListPackages ==
  /\ At("prompt")
  /\ cli' = "list"
  /\ UNCHANGED <<process, lock, list, new, query, disk, heap, made, history>>

\* print_all_packages returns with the mutex held when the list is empty.
ListPrint ==
  /\ At("list")
  /\ lock = FALSE
  /\ lock' = (list = <<>>)
  /\ cli' = "prompt"
  /\ UNCHANGED <<process, list, new, query, disk, heap, made, history>>

\* QUIT: unlock, then free_packages destroys every object from the sentinel
\* on.
Quit ==
  /\ At("prompt")
  /\ lock' = FALSE
  /\ heap' = heap \ UNION {Owned(list[i]) : i \in DOMAIN list}
  /\ list' = <<>>
  /\ process' = "quit"
  /\ UNCHANGED <<cli, new, query, disk, made, history>>

UserInput ==
  \/ Stop
  \/ \E b \in Bpkg : AddLoad(b)
  \/ \E q \in Query : RemovePackage(q)
  \/ ListPackages
  \/ Quit

CliStep ==
  \/ AddResize \/ AddBuild \/ AddAppend \/ DestroyPackage \/ ListPrint

Next == UserInput \/ CliStep

Spec == Init /\ [][Next]_vars

\* The thread is scheduled once a command is typed; the user may stop typing.
FairSpec == Spec /\ WF_vars(CliStep)

-----------------------------------------------------------------------------
(* Properties.                                                             *)

\* The file over which initilise_tree built the tree that add_package
\* compared: the data file; or, when it could build none over that, the file
\* of the package's name in the working directory.
Compared(o) ==
  IF o.held = "first tree" THEN Cwd(FileOf(o.bpkg)) ELSE o.path

\* The status shown for a package tells whether the file it was compared
\* with begins with the package's data, as long as no later ADDPACKAGE has
\* resized that file, whichever of open, ftruncate, fstat and mmap failed and
\* whatever was added and removed meanwhile.
StatusOfLastCheck ==
  \A i \in DOMAIN list :
    LET o == list[i] IN
      checked[Compared(o)] <= o.id =>
        (o.complete = "COMPLETED" <=>
           IsPrefix(DataOf(o.bpkg), disk[Compared(o)]))

\* Every part of a listed package is still allocated, and whatever is
\* allocated can be reached from the list or from the command in progress,
\* except the first tree of an object that got a second one.
EveryPartAccounted ==
  LET listed == {list[i] : i \in DOMAIN list}
      reached == UNION {Owned(o) : o \in listed \cup ({new} \ {NoPackage})}
  IN /\ \A o \in listed : Owned(o) \subseteq heap
     /\ process \in {"running", "quit"} =>
          \A a \in heap \ reached : a \in rebuilt \X {"first tree"}

\* A complete data file of a listed package is only ever damaged by an
\* ADDPACKAGE that gives the same file name and another size.
OnlyResizingDamages ==
  [][\A i \in DOMAIN list :
       LET p == list[i].path
           data == DataOf(list[i].bpkg)
       IN disk[p] = data /\ disk'[p] # data =>
            /\ cli = "resize"
            /\ Len(DataOf(new.bpkg)) # Len(data)
            /\ p \in Named(new)]_vars

\* A command that never returns waits for packages_mutex (or for
\* add_package's copy of it) after PACKAGES found the list empty.
OnlyTheLeakedLockStops ==
  cli # "prompt" ~> \/ cli = "prompt" \/ process # "running"
                    \/ lock /\ list = <<>>
=============================================================================
