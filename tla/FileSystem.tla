----------------------------- MODULE FileSystem -----------------------------
(***************************************************************************)
(* The part of the operating system's file system that the handlers use: a *)
(* tree of directories and regular files, and what system calls make of    *)
(* it. A path is the sequence of its names. A handle (an open stream)      *)
(* follows its file: it sees what is written in place to the file, and     *)
(* keeps a file of its own once the name is removed or given to another.   *)
(***************************************************************************)
EXTENDS Integers, Sequences

CONSTANT Paths      \* the paths of the tree, the root <<>> among them

NoPath == <<"">>    \* names nothing

Nothing == [kind |-> "none", data |-> <<>>]
Directory == [kind |-> "directory", data |-> <<>>]
File(data) == [kind |-> "file", data |-> data]

Parent(path) == SubSeq(path, 1, Len(path) - 1)
Name(path) == path[Len(path)]

Nodes == [kind : {"none", "directory", "file"}, data : Seq(STRING)]

\* That these are strings is what the provers do not know by themselves.
ASSUME StringsAssumption == {"", "zero"} \subseteq STRING

ASSUME PathsAssumption ==
    /\ Paths \subseteq Seq(STRING) /\ <<>> \in Paths /\ NoPath \notin Paths
    /\ \A path \in Paths \ {<<>>} : Len(path) > 0 /\ Parent(path) \in Paths

\* What a path names. A path outside Paths names nothing.
Node(tree, path) == IF path \in Paths THEN tree[path] ELSE Nothing

Exists(tree, path) == Node(tree, path).kind # "none"
IsDirectory(tree, path) == Node(tree, path).kind = "directory"
IsFile(tree, path) == Node(tree, path).kind = "file"

Children(tree, path) ==
    {child \in Paths \ {<<>>} : Parent(child) = path /\ Exists(tree, child)}

\* Names are removed only when nothing is below them.
WellFormed(tree) ==
    /\ IsDirectory(tree, <<>>)
    /\ \A path \in Paths \ {<<>>} : Exists(tree, path) => IsDirectory(tree, Parent(path))

\* A new name can be made here.
Vacant(tree, path) ==
    /\ path \in Paths \ {<<>>} /\ ~Exists(tree, path)
    /\ IsDirectory(tree, Parent(path))

\* remove(3) takes a file or an empty directory.
Removable(tree, path) == path # <<>> /\ Exists(tree, path) /\ Children(tree, path) = {}

With(tree, path, node) == [tree EXCEPT ![path] = node]

-----------------------------------------------------------------------------
(***************************************************************************)
(* Handles                                                                 *)
(***************************************************************************)
Closed == [open |-> FALSE, at |-> NoPath, own |-> <<>>, names |-> {}, gone |-> {}]
OpenAt(path) == [Closed EXCEPT !.open = TRUE, !.at = path]

\* The file of a handle has lost its name.
Unnamed(handle) == handle.at = NoPath

Contents(tree, handle) ==
    IF Unnamed(handle) THEN handle.own ELSE Node(tree, handle.at).data

\* A handle when a path is created, removed or replaced. names are those that
\* the directory of the handle has had since it was opened, gone those it had
\* then and has lost: readdir must return the first and may return the others.
Adjusted(tree, handle, path) ==
    CASE handle.open /\ handle.at = path ->
           [handle EXCEPT !.at = NoPath, !.own = tree[path].data]
      [] handle.open /\ handle.at = Parent(path) ->
           [handle EXCEPT !.names = @ \ {Name(path)},
                          !.gone = @ \cup (handle.names \cap {Name(path)})]
      [] OTHER -> handle

\* Writing at a position: a gap before it is filled with zeros.
Written(data, position, symbols) ==
    [k \in 1..(IF position + Len(symbols) > Len(data) THEN position + Len(symbols) ELSE Len(data)) |->
        IF k \in (position + 1)..(position + Len(symbols)) THEN symbols[k - position]
        ELSE IF k <= Len(data) THEN data[k] ELSE "zero"]
=============================================================================
