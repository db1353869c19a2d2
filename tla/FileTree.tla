------------------------------ MODULE FileTree ------------------------------
(***************************************************************************)
(* What the file system operations promise their callers: a tree of names, *)
(* with no clusters, tables, entries or limits.  A path is a sequence of   *)
(* names, a node is a directory or a file with contents.  An operation     *)
(* that reports an error leaves the tree as it is.  A write may stop early *)
(* when space runs out, and says nothing about a gap it leaves behind the  *)
(* old end of the file.  Fat is shown to implement it.                     *)
(***************************************************************************)
EXTENDS Naturals, SequencesExt

CONSTANTS
    Data,       \* what a caller may write
    MaxSize     \* longest file

VARIABLE tree   \* a function from the paths that exist to their nodes

Directory == [dir |-> TRUE, data |-> <<>>]
File(s) == [dir |-> FALSE, data |-> s]

Exists(p) == p \in DOMAIN tree
IsDir(p) == p = <<>> \/ (Exists(p) /\ tree[p].dir)
Below(p) == {q \in DOMAIN tree : IsPrefix(p, q)}

Init == tree = <<>>

Add(p, node) ==
    /\ ~Exists(p)
    /\ IsDir(Front(p))
    /\ tree' = [q \in DOMAIN tree \cup {p} |-> IF q = p THEN node ELSE tree[q]]

Take(p) == tree' = [q \in DOMAIN tree \ {p} |-> tree[q]]

DeleteFile(p) == Exists(p) /\ ~tree[p].dir /\ Take(p)

RemoveDirectory(p) == Exists(p) /\ tree[p].dir /\ Below(p) = {p} /\ Take(p)

\* n pieces of d reach the file behind its first o pieces.
Written(old, new, d, o, n) ==
    /\ Len(new) = Max({Len(old), o + n})
    /\ \A i \in DOMAIN new :
          /\ i \in o + 1 .. o + n => new[i] = d
          /\ i \in DOMAIN old \ (o + 1 .. o + n) => new[i] = old[i]

WriteFile(p) ==
    /\ Exists(p) /\ ~tree[p].dir
    /\ DOMAIN tree' = DOMAIN tree
    /\ \A q \in DOMAIN tree \ {p} : tree'[q] = tree[q]
    /\ ~tree'[p].dir
    /\ \E d \in Data, o \in 0 .. MaxSize, n \in 1 .. MaxSize :
          Written(tree[p].data, tree'[p].data, d, o, n)

\* Everything at or below p goes to the same place at or below q.
Move(p, q) ==
    /\ Exists(p) /\ ~Exists(q)
    /\ IsDir(Front(q)) /\ ~IsPrefix(p, q)
    /\ LET New(r) == IF IsPrefix(p, r) THEN q \o SubSeq(r, Len(p) + 1, Len(r)) ELSE r
           Old(r) == CHOOSE s \in DOMAIN tree : New(s) = r
       IN tree' = [r \in {New(s) : s \in DOMAIN tree} |-> tree[Old(r)]]

Next ==
    \/ \E p \in DOMAIN tree' : Add(p, File(<<>>)) \/ Add(p, Directory)
    \/ \E p \in DOMAIN tree :
          \/ DeleteFile(p)
          \/ RemoveDirectory(p)
          \/ WriteFile(p)
          \/ \E q \in DOMAIN tree' : Move(p, q)

Spec == Init /\ [][Next]_tree
==============================================================================
