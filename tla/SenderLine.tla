----------------------------- MODULE SenderLine -----------------------------
(***************************************************************************)
(* What a sender fifo promises: operations stand in line in the order they *)
(* were started, the first of the line, and nobody else, is active, and it *)
(* leaves the line when it ends.                                           *)
(***************************************************************************)
EXTENDS Sequences

CONSTANTS Fifo, Op

VARIABLES
    line,    \* line[f]: the operations started on f that have not ended
    active   \* active[f]: the operations of f that are executing

FirstOf(l) == IF l = <<>> THEN {} ELSE {Head(l)}

lineVars == <<line, active>>

Init ==
    /\ line = [f \in Fifo |-> <<>>]
    /\ active = [f \in Fifo |-> {}]

Change(f, l) ==
    /\ line' = [line EXCEPT ![f] = l]
    /\ active' = [active EXCEPT ![f] = FirstOf(l)]

Join(f, op) == Change(f, Append(line[f], op))

Leave(f) == line[f] # <<>> /\ Change(f, Tail(line[f]))

Next == \E f \in Fifo : Leave(f) \/ \E op \in Op : Join(f, op)

Spec == Init /\ [][Next]_lineVars
=============================================================================
