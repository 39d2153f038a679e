------------------------------ MODULE SourceTree ------------------------------
(***************************************************************************)
(* Which object files of a new source tree a patch is made of              *)
(* (getChangedObjectFilesInSourceTree, patchwrite/sourcetree.c).  The      *)
(* directories of the two trees are gone through side by side, each in     *)
(* alphabetical order.                                                     *)
(*                                                                         *)
(* An entry of a directory is named by a number, its place in that order;  *)
(* a tree is a function from the paths in it to files and directories.     *)
(***************************************************************************)
EXTENDS Integers, Sequences, FiniteSets, SequencesExt

CONSTANTS
  Cases,        \* numbers of pairs of source trees
  Version(_)    \* such a pair, with what is linked of the new one

VARIABLES
  trees,    \* the old tree and the new one
  walk,     \* calls for directories, the innermost last
  objects   \* ObjFileInfos found

treeVars == <<trees, walk, objects>>

-----------------------------------------------------------------------------
(* A directory is [kind], a file [kind, file].                              *)

Path == Seq(Nat)

\* What is in a directory has its path for a prefix.
IsTree(tree) ==
  /\ IsFiniteSet(DOMAIN tree) /\ DOMAIN tree \subseteq Path
  /\ <<>> \in DOMAIN tree /\ tree[<<>>].kind = "dir"
  /\ \A p \in DOMAIN tree : \A n \in 0..(Len(p) - 1) :
       SubSeq(p, 1, n) \in DOMAIN tree /\ tree[SubSeq(p, 1, n)].kind = "dir"

ASSUME TreesAssumption ==
  \A n \in Cases : IsTree(Version(n).old) /\ IsTree(Version(n).new)

\* filterOnlyObjAndDirs
filterOnlyObjAndDirs(node) == node.kind \in {"obj", "dir"}

\* scandir fails for what is not a directory, and there are no entries.
ScanDir(tree, path) ==
  { Last(p) : p \in { q \in DOMAIN tree :
                        q # <<>> /\ Front(q) = path /\ filterOnlyObjAndDirs(tree[q]) } }

\* A call for a directory of both trees or, with the other NULL, of one: the
\* names not passed yet.
DirCall(path, old, new) ==
  [path |-> path,
   orig |-> IF old THEN ScanDir(trees.old, path) ELSE {},
   mod |-> IF new THEN ScanDir(trees.new, path) ELSE {}]

\* The entries are sorted (alphasort), so the next one is the least.
call == Last(walk)
orig == Min(call.orig)
mod  == Min(call.mod)

BothLeft == walk # <<>> /\ call.orig # {} /\ call.mod # {}

Step(o, m) ==
  Append(Front(walk), [path |-> call.path, orig |-> call.orig \ o, mod |-> call.mod \ m])

Inside(name) == Append(call.path, name)

IsDir(tree, name) == tree[Inside(name)].kind = "dir"
OrigIsDir == IsDir(trees.old, orig)
ModIsDir  == IsDir(trees.new, mod)

\* elfcmp, which compares nothing: every two files differ.
elfcmp(a, b) == FALSE

TreeInit ==
  /\ \E n \in Cases : trees = Version(n)
  /\ walk = <<DirCall(<<>>, TRUE, TRUE)>>
  /\ objects = <<>>

-----------------------------------------------------------------------------
\* A directory in both.
SameDirectory ==
  /\ BothLeft /\ orig = mod /\ OrigIsDir /\ ModIsDir
  /\ walk' = Append(Step({orig}, {mod}), DirCall(Inside(orig), TRUE, TRUE))
  /\ UNCHANGED <<trees, objects>>

\* A file in both.
SameObject ==
  /\ BothLeft /\ orig = mod /\ ~OrigIsDir /\ ~ModIsDir
  /\ walk' = Step({orig}, {mod})
  /\ objects' = IF elfcmp(trees.old[Inside(orig)], trees.new[Inside(mod)]) THEN objects
                ELSE Append(objects, [state |-> "modified", path |-> Inside(orig)])
  /\ UNCHANGED trees

\* What has the name of a file in one and of a directory in the other.
Bewildered == BothLeft /\ orig = mod /\ OrigIsDir # ModIsDir

\* The new tree's file is passed over as well.
RemovedWithTheOther ==
  /\ BothLeft /\ orig < mod
  /\ walk' = IF OrigIsDir THEN Append(Step({orig}, {mod}), DirCall(Inside(orig), TRUE, FALSE))
             ELSE Step({orig}, {mod})
  /\ UNCHANGED <<trees, objects>>

\* Only the old tree has it.
Removed ==
  /\ BothLeft /\ orig < mod
  /\ walk' = IF OrigIsDir THEN Append(Step({orig}, {}), DirCall(Inside(orig), TRUE, FALSE))
             ELSE Step({orig}, {})
  /\ UNCHANGED <<trees, objects>>

\* Only the new tree has it.  Whether it is a directory is asked of the entry
\* of the old tree: a file that comes before a directory is passed over, and
\* a directory that comes before a file is taken for a file.
Added ==
  /\ BothLeft /\ orig > mod
  /\ IF OrigIsDir
       THEN /\ walk' = Append(Step({}, {mod}), DirCall(Inside(mod), FALSE, TRUE))
            /\ UNCHANGED objects
       ELSE /\ walk' = Step({}, {mod})
            /\ objects' = Append(objects, [state |-> "new", path |-> Inside(mod)])
  /\ UNCHANGED trees

\* One of the directories has ended.  What is left of the old one is not
\* looked at.  What is left of the new one is taken for new files, under the
\* name at the old one's index, which may be any.
EndDirectory ==
  /\ walk # <<>> /\ ~BothLeft
  /\ walk' = Front(walk)
  /\ objects' = objects \o [k \in 1..Cardinality(call.mod) |->
                              [state |-> "new", path |-> call.path]]
  /\ UNCHANGED trees

TreeNext == SameDirectory \/ SameObject \/ Removed \/ Added \/ EndDirectory
=============================================================================
