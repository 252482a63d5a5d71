----------------------------- MODULE SenderFifo -----------------------------
(***************************************************************************)
(* async_sender_fifo: a sender wrapped by a fifo starts only when the      *)
(* operations started on that fifo before it have ended.                   *)
(***************************************************************************)
EXTENDS Naturals, Sequences

CONSTANTS
    Fifo,   \* the fifos
    Op,     \* the operations connected to them; one that has ended can be
            \* connected anew, to any fifo
    Null    \* no operation, no fifo

ASSUME NullOpAssumption == Null \notin Op /\ Null \notin Fifo

VARIABLES
    current,   \* _core::current of each fifo
    waiters,   \* _core::waiters of each fifo
    core,      \* _op::core, the fifo an operation was started on
    state      \* how far each operation is

fifoVars == <<current, waiters, core, state>>

TypeOK ==
    /\ current \in [Fifo -> Op \cup {Null}]
    /\ waiters \in [Fifo -> Seq(Op)]
    /\ core \in [Op -> Fifo \cup {Null}]
    /\ state \in [Op -> {"idle", "waiting", "running"}]

Init ==
    /\ current = [f \in Fifo |-> Null]
    /\ waiters = [f \in Fifo |-> <<>>]
    /\ core = [op \in Op |-> Null]
    /\ state = [op \in Op |-> "idle"]

\* defect: the fifo does not look whether somebody is current
StartAtOnce(f, op) ==
    /\ state[op] = "idle"
    /\ core' = [core EXCEPT ![op] = f]
    /\ current' = [current EXCEPT ![f] = op]
    /\ state' = [state EXCEPT ![op] = "running"]
    /\ UNCHANGED waiters

\* _op::start, on_start
Start(f, op) ==
    /\ state[op] = "idle"
    /\ core' = [core EXCEPT ![op] = f]
    /\ \/ /\ current[f] = Null
          /\ current' = [current EXCEPT ![f] = op]
          /\ state' = [state EXCEPT ![op] = "running"]
          /\ UNCHANGED waiters
       \/ /\ current[f] # Null
          /\ waiters' = [waiters EXCEPT ![f] = Append(@, op)]
          /\ state' = [state EXCEPT ![op] = "waiting"]
          /\ UNCHANGED current

\* defect: nobody follows
OnEndOnly(f, op) ==
    /\ current' = [current EXCEPT ![f] = Null]
    /\ state' = [state EXCEPT ![op] = "idle"]
    /\ UNCHANGED waiters

\* defect: the last waiter follows
OnEndLast(f, op) ==
    \/ /\ waiters[f] = <<>>
       /\ current' = [current EXCEPT ![f] = Null]
       /\ state' = [state EXCEPT ![op] = "idle"]
       /\ UNCHANGED waiters
    \/ \E l \in Op :
         /\ waiters[f] # <<>>
         /\ l = waiters[f][Len(waiters[f])]
         /\ current' = [current EXCEPT ![f] = l]
         /\ waiters' = [waiters EXCEPT ![f] = SubSeq(@, 1, Len(@) - 1)]
         /\ state' = [state EXCEPT ![op] = "idle", ![l] = "running"]

\* on_end: the first waiter, if there is one, becomes current and starts
OnEnd(f, op) ==
    \/ /\ waiters[f] = <<>>
       /\ current' = [current EXCEPT ![f] = Null]
       /\ state' = [state EXCEPT ![op] = "idle"]
       /\ UNCHANGED waiters
    \/ /\ waiters[f] # <<>>
       /\ current' = [current EXCEPT ![f] = Head(waiters[f])]
       /\ waiters' = [waiters EXCEPT ![f] = Tail(@)]
       /\ state' = [state EXCEPT ![op] = "idle", ![Head(waiters[f])] = "running"]

\* _recv: value, error or stopped, the wrapped sender has completed
Complete(op) ==
    /\ state[op] = "running"
    /\ OnEnd(core[op], op)
    /\ core' = [core EXCEPT ![op] = Null]

Next ==
    \/ \E f \in Fifo, op \in Op : Start(f, op)
    \/ \E op \in Op : Complete(op)

Spec == Init /\ [][Next]_fifoVars

\* A wrapped sender that was started completes.
FairSpec == Spec /\ \A op \in Op : WF_fifoVars(Complete(op))

-----------------------------------------------------------------------------
ActiveOn(f) == {op \in Op : state[op] = "running" /\ core[op] = f}

\* One operation of a fifo runs at a time and it is the current one, so that
\* the ends are matched with the starts (async_sender_fifo.hpp:8, 20-39).
OneAtATime == \A f \in Fifo : ActiveOn(f) = {current[f]} \ {Null}

\* Nobody is stranded: as long as someone waits somebody runs, and every
\* operation that waits stands once in its own fifo's list
\* (async_sender_fifo.hpp:26-38).
NobodyStranded ==
    /\ \A f \in Fifo : waiters[f] # <<>> => current[f] # Null
    /\ \A op \in Op, f \in Fifo : state[op] = "waiting" /\ core[op] = f =>
         \E i \in 1..Len(waiters[f]) : waiters[f][i] = op
    /\ \A f \in Fifo : \A i, j \in 1..Len(waiters[f]) :
         waiters[f][i] = waiters[f][j] => i = j

LineOf(f) == IF current[f] = Null THEN waiters[f] ELSE <<current[f]>> \o waiters[f]

Line == INSTANCE SenderLine WITH
    line <- [f \in Fifo |-> LineOf(f)],
    active <- [f \in Fifo |-> ActiveOn(f)]

\* The fifo implements the line: operations run one at a time, in the order
\* in which they were started.
LineSpec == Line!Spec

\* An operation that was started ends (async_sender_fifo.hpp:30-39).
StartedEnds == \A op \in Op : state[op] # "idle" ~> state[op] = "idle"
=============================================================================
