------------------------------- MODULE RbTree -------------------------------
(***************************************************************************)
(* The intrusive red-black tree that holds the sleeping threads            *)
(* (libs/libcontainers/.../maps/intrusive_rb_tree.hpp; sleep_queue_ in     *)
(* scheduler.hpp).  Nodes are threads, Key[n] is the time at which n is    *)
(* woken.  Nodes with the same key hang in a list (next) behind the one    *)
(* that is in the tree.                                                    *)
(*                                                                         *)
(* The pointers are modelled one by one.  What the code writes out twice,  *)
(* once per side, takes the side as a parameter.                           *)
(***************************************************************************)
EXTENDS Integers, FiniteSets

CONSTANTS Node, Nil, Key

ASSUME KeyAssumption == Nil \notin Node /\ Key \in [Node -> Nat]

VARIABLES
    tree,   \* the tree: root, min and max, and the hooks of all nodes
    held    \* the nodes that were inserted and not deleted

vars == <<tree, held>>

Side == {"left", "right"}
Other(s) == IF s = "left" THEN "right" ELSE "left"

\* The color of a node outside the tree is never read and taken to be black.
RbInit ==
    /\ tree = [root |-> Nil, min |-> Nil, max |-> Nil,
               parent |-> [n \in Node |-> Nil], child |-> [n \in Node |-> [s \in Side |-> Nil]],
               color |-> [n \in Node |-> "kBlack"], next |-> [n \in Node |-> Nil]]
    /\ held = {}

-----------------------------------------------------------------------------
IsRed(t, n) == n # Nil /\ t.color[n] = "kRed"

\* These two leave a null pointer alone.
SetParent(t, n, p) == IF n = Nil THEN t ELSE [t EXCEPT !.parent[n] = p]
Paint(t, n, c) == IF n = Nil THEN t ELSE [t EXCEPT !.color[n] = c]

\* v takes the place of u below u's parent.
Hang(t, u, v) ==
    LET p == t.parent[u]
    IN  IF p = Nil THEN [t EXCEPT !.root = v]
        ELSE [t EXCEPT !.child[p][IF t.child[p].left = u THEN "left" ELSE "right"] = v]

\* RotateLeft_ and RotateRight_.
Rotate(t, x, s) ==
    LET y == t.child[x][Other(s)]
        moved == SetParent([t EXCEPT !.child[x][Other(s)] = t.child[y][s]], t.child[y][s], x)
        up == Hang([moved EXCEPT !.parent[y] = t.parent[x]], x, y)
    IN  [up EXCEPT !.child[y][s] = x, !.parent[x] = y]

\* The node with this key below n, or Nil; the last node on the way to it.
RECURSIVE Find(_, _, _), LastBefore(_, _, _)

Find(t, n, key) ==
    IF n = Nil \/ Key[n] = key THEN n
    ELSE Find(t, t.child[n][IF key < Key[n] THEN "left" ELSE "right"], key)

LastBefore(t, n, key) ==
    LET c == t.child[n][IF key < Key[n] THEN "left" ELSE "right"]
    IN  IF c = Nil THEN n ELSE LastBefore(t, c, key)

\* The list behind n.
RECURSIVE Bucket(_, _)

Bucket(t, n) == IF n = Nil THEN {} ELSE {n} \cup Bucket(t, t.next[n])

Contains(t, n) == n \in Bucket(t, Find(t, t.root, Key[n]))

\* The outermost node of the tree below n on a side (TreeMinimum_).
RECURSIVE Outermost(_, _, _)

Outermost(t, n, s) == IF t.child[n][s] = Nil THEN n ELSE Outermost(t, t.child[n][s], s)

-----------------------------------------------------------------------------
RECURSIVE InsertFixup(_, _)

\* With g the grandparent and s the side of the parent p below it.
RaiseRed(t, z, p, g, s) ==
    IF IsRed(t, t.child[g][Other(s)])
    THEN InsertFixup(Paint(Paint(Paint(t, p, "kBlack"), t.child[g][Other(s)], "kBlack"), g, "kRed"), g)
    ELSE LET triangle == z = t.child[p][Other(s)]
             line == IF triangle THEN Rotate(t, p, s) ELSE t
             top == IF triangle THEN z ELSE p
         IN  InsertFixup(Rotate(Paint(Paint(line, top, "kBlack"), g, "kRed"), g, Other(s)),
                         IF triangle THEN p ELSE z)

InsertFixup(t, z) ==
    LET p == t.parent[z]
    IN  IF ~IsRed(t, p) THEN Paint(t, t.root, "kBlack")
        ELSE RaiseRed(t, z, p, t.parent[p],
                      IF p = t.child[t.parent[p]].left THEN "left" ELSE "right")

CacheMinMax(t, n) ==
    [t EXCEPT !.min = IF @ = Nil \/ Key[n] < Key[@] THEN n ELSE @,
              !.max = IF @ = Nil \/ Key[n] > Key[@] THEN n ELSE @]

Linked(t, n, y) ==
    IF y = Nil THEN [t EXCEPT !.root = n]
    ELSE [t EXCEPT !.parent[n] = y,
                   !.child[y][IF Key[n] < Key[y] THEN "left" ELSE "right"] = n]

Inserted(t, n) ==
    LET existing == Find(t, t.root, Key[n])
    IN  IF existing # Nil
        THEN [t EXCEPT !.next[n] = t.next[existing], !.next[existing] = n]
        ELSE InsertFixup(
                 CacheMinMax(
                     Linked(Paint(t, n, "kRed"), n,
                            IF t.root = Nil THEN Nil ELSE LastBefore(t, t.root, Key[n])), n), n)

-----------------------------------------------------------------------------
\* x, a black node or a null pointer below xp, is one black node short.
RECURSIVE DeleteFixup(_, _, _)

\* The sibling w, on side o, is black and has a red child.
Borrow(t, xp, w, o) ==
    LET near == IF IsRed(t, t.child[w][o]) THEN t
                ELSE Rotate(Paint(Paint(t, t.child[w][Other(o)], "kBlack"), w, "kRed"), w, o)
        v == near.child[xp][o]
        painted == Paint(Paint(Paint(near, v, near.color[xp]), xp, "kBlack"),
                         near.child[v][o], "kBlack")
        done == Rotate(painted, xp, Other(o))
    IN  Paint(done, done.root, "kBlack")

\* The sibling w, on side o, is black.
BlackSibling(t, xp, w, o) ==
    IF \A s \in Side : ~IsRed(t, t.child[w][s])
    THEN DeleteFixup(Paint(t, w, "kRed"), xp, t.parent[xp])
    ELSE Borrow(t, xp, w, o)

RedSiblingUp(t, xp, w, o) == Rotate(Paint(Paint(t, w, "kBlack"), xp, "kRed"), xp, Other(o))

SiblingSide(t, x, xp) == IF x = t.child[xp].left THEN "right" ELSE "left"

WithSibling(t, xp, o) ==
    IF IsRed(t, t.child[xp][o])
    THEN LET up == RedSiblingUp(t, xp, t.child[xp][o], o)
         IN  BlackSibling(up, xp, up.child[xp][o], o)
    ELSE BlackSibling(t, xp, t.child[xp][o], o)

DeleteFixup(t, x, xp) ==
    IF x = t.root \/ IsRed(t, x) THEN Paint(t, x, "kBlack")
    ELSE WithSibling(t, xp, SiblingSide(t, x, xp))

\* RBTransplant_
Transplant(t, u, v) == SetParent(Hang(t, u, v), v, t.parent[u])

\* What hangs in the tree instead of z, and what DeleteFixup_ is called with.
WithoutZ(t, z) ==
    IF \E s \in Side : t.child[z][s] = Nil
    THEN LET x == t.child[z][IF t.child[z].left = Nil THEN "right" ELSE "left"]
         IN  [t |-> Transplant(t, z, x), x |-> x, xp |-> t.parent[z], lost |-> t.color[z]]
    ELSE LET y == Outermost(t, t.child[z].right, "left")
             x == t.child[y].right
             below == t.parent[y] = z
             r == t.child[z].right
             freed == IF below THEN t
                      ELSE [Transplant(t, y, x) EXCEPT !.child[y].right = r, !.parent[r] = y]
             l == t.child[z].left
         IN  [t |-> [Transplant(freed, z, y) EXCEPT !.child[y].left = l, !.parent[l] = y,
                                                    !.color[y] = t.color[z]],
              x |-> x, xp |-> IF below THEN y ELSE t.parent[y], lost |-> t.color[y]]

\* (mutant) The black node that is lost is not made up for.
RebalancedNot(r) == r.t

Rebalanced(r) == IF r.lost = "kBlack" THEN DeleteFixup(r.t, r.x, r.xp) ELSE r.t

RecalculateMinMax(t) ==
    [t EXCEPT !.min = IF t.root = Nil THEN Nil ELSE Outermost(t, t.root, "left"),
              !.max = IF t.root = Nil THEN Nil ELSE Outermost(t, t.root, "right")]

\* The hooks of a node that left the tree.
Cleared(t, n) ==
    [t EXCEPT !.parent[n] = Nil, !.child[n] = [s \in Side |-> Nil], !.next[n] = Nil,
              !.color[n] = "kBlack"]

RBDelete(t, z) ==
    LET out == Cleared(Rebalanced(WithoutZ(t, z)), z)
    IN  IF z \in {t.min, t.max} THEN RecalculateMinMax(out) ELSE out

\* The first of the list takes the place of n in the tree.
ReplaceWithNext(t, n) ==
    LET r == t.next[n]
        put == Hang([t EXCEPT !.parent[r] = t.parent[n], !.child[r] = t.child[n],
                              !.color[r] = t.color[n],
                              !.min = IF @ = n THEN r ELSE @, !.max = IF @ = n THEN r ELSE @], n, r)
    IN  Cleared(SetParent(SetParent(put, t.child[n].left, r), t.child[n].right, r), n)

\* (mutant) The rest of the list is lost.
UnlinkedRest(t, n) ==
    LET prev == CHOOSE m \in Bucket(t, Find(t, t.root, Key[n])) : t.next[m] = n
    IN  [t EXCEPT !.next[prev] = Nil, !.next[n] = Nil]

\* A node in the list behind the one in the tree is unlinked from the list.
Unlinked(t, n) ==
    LET prev == CHOOSE m \in Bucket(t, Find(t, t.root, Key[n])) : t.next[m] = n
    IN  [t EXCEPT !.next[prev] = t.next[n], !.next[n] = Nil]

Deleted(t, n) ==
    IF Find(t, t.root, Key[n]) # n THEN Unlinked(t, n)
    ELSE IF t.next[n] # Nil THEN ReplaceWithNext(t, n)
    ELSE RBDelete(t, n)

-----------------------------------------------------------------------------
\* NanoSleepUntil.
Insert(n) ==
    /\ n \notin held
    /\ tree' = Inserted(tree, n)
    /\ held' = held \cup {n}

\* RemoveThread of a thread that sleeps.
Delete(n) ==
    /\ n \in held
    /\ tree' = Deleted(tree, n)
    /\ held' = held \ {n}

\* WakeUpTasks: Delete(Min()).
DeleteMin ==
    /\ tree.min # Nil
    /\ tree' = Deleted(tree, tree.min)
    /\ held' = held \ {tree.min}

RbNext == (\E n \in Node : Insert(n) \/ Delete(n)) \/ DeleteMin

RbSpec == RbInit /\ [][RbNext]_vars

-----------------------------------------------------------------------------
\* The nodes in the tree itself.
InTree == {n \in Node : n = tree.root \/ tree.parent[n] # Nil}

(***************************************************************************)
(* The pointers agree: a node in the tree is a child of its parent, a      *)
(* child knows its parent, and a node that is not in the tree has no       *)
(* pointers into it (Insert, Delete and the rotations).                    *)
(***************************************************************************)
LinksAgree ==
    /\ tree.root # Nil => tree.root \in Node /\ tree.parent[tree.root] = Nil
    /\ \A n \in InTree \ {tree.root} : \E s \in Side : tree.child[tree.parent[n]][s] = n
    /\ \A n \in Node : \A s \in Side :
          tree.child[n][s] # Nil => n \in InTree /\ tree.parent[tree.child[n][s]] = n
    /\ \A n \in Node : tree.next[n] # Nil => Key[tree.next[n]] = Key[n] /\ tree.next[n] \notin InTree

\* The numbers of black nodes on the ways down from n.
RECURSIVE BlackHeights(_)

BlackHeights(n) ==
    IF n = Nil THEN {0}
    ELSE {h + (IF IsRed(tree, n) THEN 0 ELSE 1) :
             h \in BlackHeights(tree.child[n].left) \cup BlackHeights(tree.child[n].right)}

(***************************************************************************)
(* The tree is red-black: its pointers agree, no red node has a red parent *)
(* and all ways down have the same number of black nodes (InsertFixup_,    *)
(* DeleteFixup_; what ValidateRBProperties in kernel/test/rb_test.cpp      *)
(* tests).                                                                 *)
(***************************************************************************)
RedBlack ==
    /\ LinksAgree
    /\ ~IsRed(tree, tree.root)
    /\ \A n \in InTree : IsRed(tree, n) => ~IsRed(tree, tree.parent[n])
    /\ Cardinality(BlackHeights(tree.root)) = 1

(***************************************************************************)
(* Min(), from which WakeUpTasks takes the next thread to wake and         *)
(* ScheduleAndUpdateThreads the time of the next event, is a sleeper with  *)
(* the smallest key, and Max() one with the largest.                       *)
(***************************************************************************)
MinMaxCached ==
    IF held = {} THEN tree.min = Nil /\ tree.max = Nil
    ELSE /\ {tree.min, tree.max} \subseteq InTree
         /\ \A n \in held : Key[tree.min] <= Key[n] /\ Key[n] <= Key[tree.max]

(***************************************************************************)
(* Find and Contains see exactly the threads that are asleep, and the ends *)
(* are cached: whatever was rotated meanwhile, a thread is found on the    *)
(* path its key prescribes, so ASSERT_TRUE(Contains(item)) of Delete holds *)
(* and nobody is woken twice, too late or never.                           *)
(***************************************************************************)
FindsSleepers ==
    /\ held = {n \in Node : Contains(tree, n)}
    /\ MinMaxCached
=============================================================================
