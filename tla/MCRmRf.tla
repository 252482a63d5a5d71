------------------------------- MODULE MCRmRf -------------------------------
EXTENDS RmRf

\* One name is the beginning of the other, as when the end of a path is cut.
MCName == {<<"a">>, <<"a", "a">>}
MCRoot == <<"r">>
MCTarget == << <<"a">> >>

MCPath[n \in Node] ==
    IF n = <<>> THEN MCRoot ELSE MCPath[Removal!Parent(n)] \o <<Slash>> \o n[Len(n)]

Below(h) == UNION {[1..i -> MCName] : i \in 0..h}

\* a directory with the given content
Dir(h, content) ==
    [n \in Below(h) |->
        IF n = <<>> THEN "dir" ELSE content[Head(n)][Tail(n)]]

Leaf(h, kind) == [n \in Below(h) |-> IF n = <<>> THEN kind ELSE "none"]

\* What a directory two levels deep can hold, innermost entries that are
\* directories included; beside it is another directory with a file.
Middle ==
    {Leaf(1, "none"), Leaf(1, "file")}
      \cup {Dir(1, [x \in MCName |-> Leaf(0, kind)]) : kind \in {"none", "dir"}}
Large ==
    {Leaf(2, "none"), Leaf(2, "file"), Leaf(2, "other")}
      \cup {Dir(2, c) : c \in [MCName -> Middle]}
Beside ==
    Dir(3, [x \in MCName |-> Leaf(2, IF x = <<"a">> THEN "file" ELSE "none")])
MCInitial ==
    {Dir(4, [x \in MCName |-> IF x = <<"a">> THEN Dir(3, c) ELSE Beside]) :
        c \in [MCName -> Large]}
=============================================================================
