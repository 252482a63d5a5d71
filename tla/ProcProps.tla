----------------------------- MODULE ProcProps -----------------------------
(***************************************************************************)
(* What must be true of Proc.                                              *)
(***************************************************************************)
EXTENDS Proc

\* No callback comes for a proc whose memory is gone: as long as its child
\* has not been reaped or one of its streams is read, it is allocated
\* (process.hpp:122-130, 146-166, 208-220).
CallbacksHaveProc ==
    \A p \in Child :
        child[p] \in {"running", "exited"} \/ reading[p] # {} => mem[p] = "allocated"

\* the places in the queue of p of what it read from a stream
PlacesOf(p, st) == {i \in 1..Len(queue[p]) : queue[p][i].kind = st}

\* Between the child and the hub no output is lost from the middle, doubled
\* or reordered: of each stream the queue holds, in order, exactly what was
\* read and not handed to a request (async_queue.hpp:35-44, 82-91).
QueueIsContiguous ==
    \A p \in Child, st \in Stream :
        /\ {queue[p][i].n : i \in PlacesOf(p, st)} = (handed[p][st] + 1)..consumed[p][st]
        /\ \A i, j \in PlacesOf(p, st) : i < j => queue[p][i].n < queue[p][j].n

\* Nobody waits for an event that is there, for an exit that has happened or
\* in a queue that is freed; whoever waits stands in the queue once
\* (process.hpp:300-305, async_queue.hpp:35-56).
NoIdleWaiter ==
    \A p \in Child :
        /\ deque_waiters[p] # <<>> =>
             queue[p] = <<>> /\ ~exit_status[p] /\ mem[p] = "allocated"
        /\ \A r \in Req : req[r].stage = "deque" /\ req[r].proc = p =>
             \E i \in 1..Len(deque_waiters[p]) : deque_waiters[p][i] = r
        /\ \A i, j \in 1..Len(deque_waiters[p]) :
             deque_waiters[p][i] = deque_waiters[p][j] => i = j

\* A child is never lost: as long as it has not been reaped, its proc is tracked
\* and under an id, where it can be cancelled, or waiting for or in a destroy()
\* that will kill it (process.hpp:208-220, 323-335).
NoOrphans ==
    \A p \in Child : child[p] \in {"running", "exited"} =>
        /\ tracked[p]
        /\ \/ \E id \in TaskId : m[id] = p
           \/ Procs!Linked(p)
           \/ destroy_task = p /\ to_erase = Null

\* A cancel is answered, and by then its child has been reaped
\* (process.hpp:208-220, 323-335, test inpt.txt:1077-1080).
CancelEnds ==
    \A r \in Req, p \in Child :
        (req[r].kind = "cancel" /\ req[r].proc = p)
          ~> (req[r].stage = "answer" /\ req[r].proc = p /\ child[p] = "reaped")

CancelOf(p) == \E r \in Req : req[r].kind = "cancel" /\ req[r].proc = p

\* A request for progress that waits when its child ends, or when another
\* request cancels its proc, is answered (process.hpp:81-85,
\* async_queue.hpp:46-56).
ProgressEnds ==
    \A r \in Req, p \in Child :
        (req[r].stage = "deque" /\ req[r].proc = p
           /\ (child[p] = "exited" \/ CancelOf(p)))
          ~> req[r].stage = "free"

\* Every child that shutdown finds is killed and its proc freed.
ShutdownFreesAll ==
    \A p \in Child : (shutdown # "no" /\ mem[p] = "allocated") ~> mem[p] = "freed"

\* "task with echo and check output" (test inpt.txt:132-140) gets the output
\* first and the exit status after it: when a request is first given the exit,
\* all that was read from the child has been handed out.
OutputBeforeExit ==
    [][\A p \in Child :
         ~told_exit[p] /\ told_exit'[p] => handed[p] = consumed[p]]_vars
=============================================================================
