-------------------------------- MODULE RmRf --------------------------------
(***************************************************************************)
(* fs_rm_rf (fs.hpp): a directory is removed with all it contains by one   *)
(* chain of libuv callbacks.  The open directories are a stack in an array *)
(* of fixed size; the path of the innermost one, or of the entry at hand,  *)
(* is in one buffer of fixed size, in which every entry of the stack only  *)
(* remembers where its own path ends (fixed_str, str.hpp).  Others create  *)
(* and remove files in the directory meanwhile.  What lies beside it in    *)
(* the working directory is in the model too: the kernel takes whatever    *)
(* path the buffer holds.                                                  *)
(***************************************************************************)
EXTENDS Naturals, Sequences, FiniteSets

CONSTANTS
    Char, Slash, \* characters, and the one that separates names
    Name,        \* names of entries, sequences of characters
    Root,        \* the path of the working directory, a sequence of characters
    Target,      \* the node to remove
    Path,        \* the path of every node, as the kernel understands it
    Height,      \* bound: names on a path below the working directory
    Depth,       \* dirs.size()
    Capacity,    \* characters that the buffer holds beside the terminator
    Initial,     \* what the directory can contain at the start
    MaxChanges,  \* bound: changes of the tree by others
    Faults       \* operations that can fail for reasons of their own

ASSUME NameAssumption ==
    /\ Slash \in Char
    /\ \A x \in Name : x \in Seq(Char) \ {<<>>} /\ \A i \in 1..Len(x) : x[i] # Slash
ASSUME HeightAssumption == Height \in Nat
ASSUME DepthAssumption == Depth \in Nat \ {0} /\ MaxChanges \in Nat
ASSUME CapacityAssumption == Root \in Seq(Char) /\ Capacity \in Nat \ {0}
ASSUME FaultsAssumption ==
    Faults \subseteq {"opendir", "readdir", "unlink", "closedir", "rmdir"}

VARIABLES
    tree,     \* see TreeRemoval
    str,      \* the string in the buffer
    stack,    \* dirs up to p
    op,       \* the operation in flight, or how the sender ended
    changes   \* how often others have changed the tree

vars == <<tree, str, stack, op, changes>>

Ended == {"done", "failed", "crashed"}

Status == IF op = "crashed" THEN "failed" ELSE IF op \in Ended THEN op ELSE "running"

Removal == INSTANCE TreeRemoval WITH status <- Status

Node == Removal!Node

\* what is in the directory to remove, at any depth
Inside(n) == Removal!Inside(n)

ASSUME TargetAssumption == Target \in Node
ASSUME InitialAssumption ==
    \A t \in Initial : Removal!IsTree(t) /\ t[Target] = "dir"
ASSUME PathAssumption ==
    /\ Path \in [Node -> Seq(Char)]
    /\ Path[<<>>] = Root
    /\ \A n \in Node \ {<<>>} :
         Path[n] = Path[Removal!Parent(n)] \o <<Slash>> \o n[Len(n)]

\* what the kernel takes a string for
Names(s, n) == s = Path[n] \/ s = Append(Path[n], Slash)

Top == stack[Len(stack)]

Entry ==
    [end : 1..Capacity, node : Node, seen : SUBSET Name,
     listed : UNION {[S -> Removal!Kind] : S \in SUBSET Name}]

\* An entry of the stack before its directory is open.
Reserve(end) == [end |-> end, node |-> <<>>, listed |-> <<>>, seen |-> {}]

TypeOK ==
    /\ Removal!IsTree(tree)
    /\ str \in Seq(Char) /\ Len(str) <= Capacity
    /\ stack \in Seq(Entry) /\ Len(stack) \in 1..Depth
    /\ op \in {"opendir", "readdir", "unlink", "closedir", "rmdir"} \cup Ended
    /\ changes \in 0..MaxChanges

\* the fixed_str of a string: what does not fit is dropped
Cut(s) == IF Len(s) > Capacity THEN SubSeq(s, 1, Capacity) ELSE s

\* append at a node of the fixed_str
Put(end, s) == Cut(SubSeq(str, 1, end) \o s)

\* set_end of a node of the fixed_str
\* defect: the string is left as it is
KeepEnd(end) == str

SetEnd(end) == SubSeq(str, 1, end)

\* The path of the directory and a slash.  A path that does not fit the
\* buffer is cut, and may then be that of another directory.
\* defect: the slash is forgotten
InitUnslashed ==
    /\ tree \in Initial
    /\ str = Cut(Path[Target])
    /\ stack = <<Reserve(Len(str))>>
    /\ op = "opendir"
    /\ changes = 0

Init ==
    /\ tree \in Initial
    /\ str = Cut(Append(Path[Target], Slash))
    /\ stack = <<Reserve(Len(str))>>
    /\ op = "opendir"
    /\ changes = 0

-----------------------------------------------------------------------------
\* The directory handle lists what is there when it is opened; whether it
\* returns what others add or remove later is not specified.
OnOpendir ==
    /\ op = "opendir"
    /\ \E n \in Node :
         /\ Names(str, n)
         /\ tree[n] = "dir"
         /\ stack' = [stack EXCEPT ![Len(stack)] =
              [end |-> Top.end, node |-> n, seen |-> {},
               listed |-> [x \in Removal!Entries(tree, n) |-> tree[Append(n, x)]]]]
    /\ op' = "readdir"
    /\ UNCHANGED <<tree, str, changes>>

KindOf(x) ==
    IF x \in DOMAIN Top.listed THEN Top.listed[x] ELSE tree[Append(Top.node, x)]

Seen(x) == [stack EXCEPT ![Len(stack)].seen = @ \cup {x}]

\* incr_entry returns null when the array is full; its caller goes on
\* defect: the last entry of the array is never used
FullEarly(s) == Len(s) >= Depth - 1

Full(s) == Len(s) = Depth

ReadDirectory(x) ==
    /\ KindOf(x) = "dir"
    /\ str' = Put(Top.end, Append(x, Slash))
    /\ \/ /\ ~Full(stack)
          /\ stack' = Append(Seen(x), Reserve(Len(str')))
          /\ op' = "opendir"
       \/ /\ Full(stack)
          /\ stack' = Seen(x)
          /\ op' = "crashed"

ReadFile(x) ==
    /\ KindOf(x) = "file"
    /\ str' = Put(Top.end, x)
    /\ stack' = Seen(x)
    /\ op' = "unlink"

ReadOther(x) ==
    /\ KindOf(x) = "other"
    /\ stack' = Seen(x)
    /\ op' = "failed"
    /\ UNCHANGED str

OnReaddirEntry ==
    /\ op = "readdir"
    /\ \E x \in (DOMAIN Top.listed \cup Removal!Entries(tree, Top.node)) \ Top.seen :
         ReadDirectory(x) \/ ReadFile(x) \/ ReadOther(x)
    /\ UNCHANGED <<tree, changes>>

OnReaddirEnd ==
    /\ op = "readdir"
    /\ DOMAIN Top.listed \cap Removal!Entries(tree, Top.node) \subseteq Top.seen
    /\ op' = "closedir"
    /\ UNCHANGED <<tree, str, stack, changes>>

CanUnlink(n) == Names(str, n) /\ tree[n] \in {"file", "other"}

OnUnlink ==
    /\ op = "unlink"
    /\ \E n \in Node :
         /\ CanUnlink(n)
         /\ tree' = [tree EXCEPT ![n] = "none"]
    /\ str' = SetEnd(Top.end)
    /\ op' = "readdir"
    /\ UNCHANGED <<stack, changes>>

OnClosedir ==
    /\ op = "closedir"
    /\ op' = "rmdir"
    /\ UNCHANGED <<tree, str, stack, changes>>

CanRmdir(n) ==
    Names(str, n) /\ tree[n] = "dir" /\ Removal!Entries(tree, n) = {}

\* defect: the sender ends with the first directory
LastAlways(s) == Len(s) >= 1

\* decr_entry returns null
Last(s) == Len(s) = 1

OnRmdir ==
    /\ op = "rmdir"
    /\ \E n \in Node :
         /\ CanRmdir(n)
         /\ tree' = [tree EXCEPT ![n] = "none"]
    /\ \/ /\ Last(stack)
          /\ op' = "done"
          /\ UNCHANGED <<str, stack>>
       \/ /\ ~Last(stack)
          /\ stack' = SubSeq(stack, 1, Len(stack) - 1)
          /\ str' = SetEnd(stack[Len(stack) - 1].end)
          /\ op' = "readdir"
    /\ UNCHANGED changes

\* defect: a directory that cannot be removed is not an error
OnErrorUnnoticed ==
    /\ op \in {"opendir", "unlink"}
    /\ \/ op \in Faults
       \/ op = "opendir" /\ ~\E n \in Node : Names(str, n) /\ tree[n] = "dir"
       \/ op = "unlink" /\ ~\E n \in Node : CanUnlink(n)
    /\ op' = "failed"
    /\ UNCHANGED <<tree, str, stack, changes>>

\* What the string names is gone, of the wrong kind or not empty, or the
\* operation fails for a reason of its own.
OnError ==
    /\ op \notin Ended
    /\ \/ op \in Faults
       \/ op = "opendir" /\ ~\E n \in Node : Names(str, n) /\ tree[n] = "dir"
       \/ op = "unlink" /\ ~\E n \in Node : CanUnlink(n)
       \/ op = "rmdir" /\ ~\E n \in Node : CanRmdir(n)
    /\ op' = "failed"
    /\ UNCHANGED <<tree, str, stack, changes>>

Callback ==
    \/ OnOpendir
    \/ OnReaddirEntry
    \/ OnReaddirEnd
    \/ OnUnlink
    \/ OnClosedir
    \/ OnRmdir
    \/ OnError

\* An upload creates a file, or a failed one removes it.  Others leave what is
\* outside alone here: a change out there is the sender's doing.
Others ==
    /\ changes < MaxChanges
    /\ op \notin Ended
    /\ \E n \in {m \in Node : Inside(m)} :
         \/ /\ tree[n] = "none"
            /\ tree[Removal!Parent(n)] = "dir"
            /\ tree' = [tree EXCEPT ![n] = "file"]
         \/ /\ tree[n] = "file"
            /\ tree' = [tree EXCEPT ![n] = "none"]
    /\ changes' = changes + 1
    /\ UNCHANGED <<str, stack, op>>

Next == Callback \/ Others

Spec == Init /\ [][Next]_vars

\* libuv calls back every operation
FairSpec == Spec /\ WF_vars(Callback)

-----------------------------------------------------------------------------
\* The path of the directory and its slash fit the buffer, and so does a
\* character behind them.  Nothing in folder_delete or folder_clear checks it.
TargetFits == Len(Path[Target]) + 1 < Capacity

\* Nothing outside the directory and nothing that still has content is
\* removed, and success means that all of it is gone, whatever others do in
\* the directory and wherever the paths of what is in it are cut, as long as
\* its own path fits (fs.hpp:648-709).
RemovalSpec == Removal!Spec

\* The shared buffer names the directory that the top of the stack has open,
\* also when a path did not fit it: the path given to rmdir, which is taken
\* from the buffer and not from the stack, is that directory's (fs.hpp:661,
\* 682, 706; str.hpp:46-54).
BufferNamesTop ==
    op \in {"readdir", "closedir", "rmdir"} =>
        Len(str) = Top.end /\ Names(str, Top.node)

\* The null pointer of incr_entry is dereferenced only when the directory
\* holds one that is deeper than the array or whose path did not fit the
\* buffer (fs.hpp:557, 617-619).
CrashOnlyWhenTooDeep ==
    op = "crashed" =>
        \E n \in Node : Inside(n) /\ tree[n] = "dir"
                          /\ (Len(n) >= Len(Target) + Depth \/ Len(Path[n]) + 1 > Capacity)

\* The chain of callbacks ends (fs.hpp:591-709).
WalkEnds == <>(op \in Ended)
=============================================================================
