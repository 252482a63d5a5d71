---------------------------- MODULE TreeRemoval ----------------------------
(***************************************************************************)
(* What removing a directory with its content promises while others keep   *)
(* using it: what is in it vanishes one node at a time, none before what   *)
(* it contains; what lies outside stays as it is; the removal succeeds in  *)
(* the very step in which the directory itself goes; when it fails, what   *)
(* is left is still a tree.                                                *)
(***************************************************************************)
EXTENDS Naturals, Sequences

CONSTANTS
    Name,    \* names of entries
    Height,  \* how deep a tree can be
    Target,  \* the directory that is removed
    Initial  \* the trees at the beginning

VARIABLES
    tree,    \* the kind of every node, "none" where there is nothing
    status   \* of the removal: running, done, failed

removalVars == <<tree, status>>

\* A node is the sequence of names on the way to it.
Node == UNION {[1..h -> Name] : h \in 0..Height}

Kind == {"none", "dir", "file", "other"}

Parent(n) == SubSeq(n, 1, Len(n) - 1)

\* in the directory that is removed, at any depth
Inside(n) == Len(n) > Len(Target) /\ \A i \in 1..Len(Target) : n[i] = Target[i]

Entries(t, n) ==
    {x \in Name : Append(n, x) \in Node /\ t[Append(n, x)] # "none"}

\* whatever exists is in an existing directory
IsTree(t) ==
    /\ t \in [Node -> Kind]
    /\ \A n \in Node \ {<<>>} : t[n] # "none" => t[Parent(n)] = "dir"

Init ==
    /\ tree \in Initial
    /\ status = "running"

Remove(n) ==
    /\ Inside(n)
    /\ tree[n] # "none"
    /\ Entries(tree, n) = {}
    /\ tree' = [tree EXCEPT ![n] = "none"]
    /\ UNCHANGED status

Create(n, kind) ==
    /\ Inside(n)
    /\ tree[n] = "none"
    /\ tree[Parent(n)] = "dir"
    /\ tree' = [tree EXCEPT ![n] = kind]
    /\ UNCHANGED status

Succeed ==
    /\ status = "running"
    /\ tree[Target] = "dir"
    /\ Entries(tree, Target) = {}
    /\ tree' = [tree EXCEPT ![Target] = "none"]
    /\ status' = "done"

Fail ==
    /\ status = "running"
    /\ status' = "failed"
    /\ UNCHANGED tree

Next ==
    \/ \E n \in Node : Remove(n)
    \/ \E n \in Node, kind \in Kind : Create(n, kind)
    \/ Succeed
    \/ Fail

Spec == Init /\ [][Next]_removalVars
=============================================================================
