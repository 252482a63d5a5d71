-------------------------------- MODULE Proc --------------------------------
(***************************************************************************)
(* The unit's tasks (unit/process.hpp): child processes kept in an         *)
(* async_map under the hub's task ids.  The hub starts them, asks for      *)
(* their progress one event at a time, and cancels them; the children      *)
(* write and exit whenever they like.  Output reaches a proc's event queue *)
(* (async_queue) through the loop's read callbacks, the exit status        *)
(* (async_optional) through its exit callback.                             *)
(***************************************************************************)
EXTENDS Naturals, Sequences, FiniteSets

CONSTANTS
    TaskId,     \* task ids
    Child,      \* proc objects, each used once, with their child processes
    Req,        \* requests that can be in progress at once
    Null,       \* no proc, no id
    Stream,     \* the streams a child writes to, stdout and stderr
    MaxOutput,  \* bound: writes of a child to each of its streams
    Hub         \* what the hub is careful about

ASSUME TaskIdAssumption == TaskId \subseteq Nat /\ IsFiniteSet(TaskId)
ASSUME NullAssumption == Null \notin Child
ASSUME MaxOutputAssumption == MaxOutput \in Nat
ASSUME StreamAssumption == Stream \subseteq {"out", "err"}
ASSUME CancelAssumption == Hub \subseteq {"one_cancel"}

VARIABLES
    m, held, cnt, mem, to_del, destroy_task, to_erase, shutdown, spinning,
                  \* `procs`, see AsyncStorage
    child,        \* the process: none, running, exited, reaped (exit_cb ran)
    tracked,      \* process.data is not null
    output,       \* how often the child has written to each stream
    consumed,     \* how much of that on_msg has taken
    reading,      \* whether the loop reads the stream
    queue,        \* _stream's queue of each proc
    deque_waiters,\* requests waiting in _stream
    exit_status,  \* whether _exit_status has a value
    handed,       \* how many events of each stream went to a request
    told_exit,    \* some request was given the exit event
    req,          \* the coroutine of each request
    destroyer     \* the coroutine of the map's destroy()

storageVars ==
    <<m, held, cnt, mem, to_del, destroy_task, to_erase, shutdown, spinning>>
childVars == <<child, output>>
streamVars == <<consumed, queue, deque_waiters, exit_status, handed, told_exit>>
vars == <<storageVars, childVars, streamVars, tracked, reading, req, destroyer>>

Procs == INSTANCE AsyncStorage WITH
    Key <- TaskId, Obj <- Child, Holder <- {}, HeldSource <- TRUE

\* an event in the queue: one read of a stream, or the exit
Event == [kind : Stream, n : 1..MaxOutput] \cup [kind : {"exit"}, n : {0}]

Exit == [kind |-> "exit", n |-> 0]

Free == [kind |-> "none", id |-> Null, proc |-> Null, stage |-> "free"]

Zeros == [p \in Child |-> [st \in Stream |-> 0]]

TypeOK ==
    /\ Procs!TypeOK
    /\ child \in [Child -> {"none", "running", "exited", "reaped"}]
    /\ tracked \in [Child -> BOOLEAN]
    /\ output \in [Child -> [Stream -> 0..MaxOutput]]
    /\ consumed \in [Child -> [Stream -> 0..MaxOutput]]
    /\ handed \in [Child -> [Stream -> 0..MaxOutput]]
    /\ reading \in [Child -> SUBSET Stream]
    /\ queue \in [Child -> Seq(Event)]
    /\ deque_waiters \in [Child -> Seq(Req)]
    /\ exit_status \in [Child -> BOOLEAN]
    /\ told_exit \in [Child -> BOOLEAN]
    /\ req \in [Req ->
         [kind : {"none", "progress", "cancel"}, id : TaskId \cup {Null},
          proc : Child \cup {Null},
          stage : {"free", "deque", "exit", "woken", "erase", "answer"}]]
    /\ destroyer \in {"idle", "exit", "woken"}

Init ==
    /\ Procs!Init
    /\ child = [p \in Child |-> "none"]
    /\ tracked = [p \in Child |-> FALSE]
    /\ output = Zeros /\ consumed = Zeros /\ handed = Zeros
    /\ reading = [p \in Child |-> {}]
    /\ queue = [p \in Child |-> <<>>]
    /\ deque_waiters = [p \in Child |-> <<>>]
    /\ exit_status = [p \in Child |-> FALSE]
    /\ told_exit = [p \in Child |-> FALSE]
    /\ req = [r \in Req |-> Free]
    /\ destroyer = "idle"

-----------------------------------------------------------------------------
\* Requests.  One for an unknown id, and a start for an id that exists, is
\* refused at once and changes nothing.  The hub's connection is closed
\* before the procs shut down.

Arrives(r) == req[r].stage = "free" /\ shutdown = "no"

Handle(r, kind, id, stage) ==
    req' = [req EXCEPT ![r] =
              [kind |-> kind, id |-> id, proc |-> m[id], stage |-> stage]]

\* uv_read_start can fail for a stream, which is logged only
TaskStart(id, p) ==
    /\ \E r \in Req : Arrives(r)
    /\ Procs!TryEmplace(id, p)
    /\ child' = [child EXCEPT ![p] = "running"]
    /\ tracked' = [tracked EXCEPT ![p] = TRUE]
    /\ \E S \in SUBSET Stream : reading' = [reading EXCEPT ![p] = S]
    /\ UNCHANGED <<output, streamVars, req, destroyer>>

\* uv_spawn fails: the entry that try_emplace made is erased again
TaskStartFails(id, p) ==
    /\ \E r \in Req : Arrives(r)
    /\ m[id] = Null
    /\ mem[p] = "unused"
    /\ mem' = [mem EXCEPT ![p] = "allocated"]
    /\ to_del' = Append(to_del, p)
    /\ UNCHANGED <<m, held, cnt, destroy_task, to_erase, shutdown, spinning,
                   childVars, streamVars, tracked, reading, req, destroyer>>

\* an event goes to a request
Hand(p, e) ==
    IF e.kind = "exit"
    THEN told_exit' = [told_exit EXCEPT ![p] = TRUE] /\ UNCHANGED handed
    ELSE handed' = [handed EXCEPT ![p][e.kind] = @ + 1] /\ UNCHANGED told_exit

\* once the exit status is set, the queue is not looked at any more
TaskProgress(r, id) ==
    LET p == m[id] IN
    /\ Arrives(r)
    /\ p # Null
    /\ \/ /\ exit_status[p]
          /\ Hand(p, Exit)
          /\ Handle(r, "progress", id, "answer")
          /\ UNCHANGED <<queue, deque_waiters>>
       \/ /\ ~exit_status[p]
          /\ queue[p] # <<>>
          /\ Hand(p, Head(queue[p]))
          /\ queue' = [queue EXCEPT ![p] = Tail(@)]
          /\ Handle(r, "progress", id, "answer")
          /\ UNCHANGED deque_waiters
       \/ /\ ~exit_status[p]
          /\ queue[p] = <<>>
          /\ deque_waiters' = [deque_waiters EXCEPT ![p] = Append(@, r)]
          /\ Handle(r, "progress", id, "deque")
          /\ UNCHANGED <<queue, handed, told_exit>>
    /\ UNCHANGED <<storageVars, childVars, tracked, consumed, exit_status,
                   reading, destroyer>>

\* destroy() of a proc up to its wait for the exit status
StopReading(p) == reading' = [reading EXCEPT ![p] = {}]

\* defect: destroy() does not wait for the exit
DontWait(p) == "woken"

\* defect: destroy() waits although the exit status is there
WaitRegardless(p) == "exit"

WaitForExit(p) == IF exit_status[p] THEN "woken" ELSE "exit"

Cancelling(id) ==
    \E r \in Req : req[r].kind = "cancel" /\ req[r].id = id

TaskCancel(r, id) ==
    LET p == m[id] IN
    /\ Arrives(r)
    /\ p # Null
    /\ "one_cancel" \in Hub => ~Cancelling(id)
    /\ \/ /\ tracked[p]
          /\ StopReading(p)
          /\ Handle(r, "cancel", id, WaitForExit(p))
       \/ /\ ~tracked[p]
          /\ Handle(r, "cancel", id, "erase")
          /\ UNCHANGED reading
    /\ UNCHANGED <<storageVars, childVars, streamVars, tracked, destroyer>>

-----------------------------------------------------------------------------
\* Child processes, and what the loop calls back about them.

\* SIGTERM was sent to the child, by a cancel or by the map's destroy()
Killed(p) ==
    \/ destroyer = "exit" /\ destroy_task = p
    \/ \E r \in Req : req[r].stage = "exit" /\ req[r].proc = p

ChildWrites(p, st) ==
    /\ child[p] = "running"
    /\ output[p][st] < MaxOutput
    /\ output' = [output EXCEPT ![p][st] = @ + 1]
    /\ UNCHANGED <<storageVars, child, streamVars, tracked, reading, req, destroyer>>

ChildExits(p) ==
    /\ child[p] = "running"
    /\ child' = [child EXCEPT ![p] = "exited"]
    /\ UNCHANGED <<storageVars, output, streamVars, tracked, reading, req, destroyer>>

\* defect: enque puts the event in front
EnqueFront(p, e) ==
    \/ /\ deque_waiters[p] = <<>>
       /\ queue' = [queue EXCEPT ![p] = <<e>> \o @]
       /\ UNCHANGED <<deque_waiters, handed, told_exit, req>>
    \/ /\ deque_waiters[p] # <<>>
       /\ deque_waiters' = [deque_waiters EXCEPT ![p] = Tail(@)]
       /\ req' = [req EXCEPT ![Head(deque_waiters[p])].stage = "answer"]
       /\ Hand(p, e)
       /\ UNCHANGED queue

\* async_queue::enque: to the first waiter, if there is one
Enque(p, e) ==
    \/ /\ deque_waiters[p] = <<>>
       /\ queue' = [queue EXCEPT ![p] = Append(@, e)]
       /\ UNCHANGED <<deque_waiters, handed, told_exit, req>>
    \/ /\ deque_waiters[p] # <<>>
       /\ deque_waiters' = [deque_waiters EXCEPT ![p] = Tail(@)]
       /\ req' = [req EXCEPT ![Head(deque_waiters[p])].stage = "answer"]
       /\ Hand(p, e)
       /\ UNCHANGED queue

\* on_msg
ReadOutput(p, st) ==
    /\ st \in reading[p]
    /\ consumed[p][st] < output[p][st]
    /\ consumed' = [consumed EXCEPT ![p][st] = @ + 1]
    /\ Enque(p, [kind |-> st, n |-> consumed[p][st] + 1])
    /\ UNCHANGED <<storageVars, childVars, exit_status, tracked, reading, destroyer>>

\* on_msg with an error or the end of the stream, which the child can close
\* long before it exits
ReadEnd(p, st) ==
    /\ st \in reading[p]
    /\ reading' = [reading EXCEPT ![p] = @ \ {st}]
    /\ UNCHANGED <<storageVars, childVars, streamVars, tracked, req, destroyer>>

\* defect: the exit goes to the first waiter only
AfterExitHead(p, r) ==
    CASE req[r].proc = p /\ req[r].stage = "exit" -> [req[r] EXCEPT !.stage = "woken"]
      [] deque_waiters[p] # <<>> /\ Head(deque_waiters[p]) = r -> [req[r] EXCEPT !.stage = "answer"]
      [] OTHER -> req[r]

\* whom exit_status.emplace resumes, and whom enque_all
AfterExit(p, r) ==
    CASE req[r].proc = p /\ req[r].stage = "exit" -> [req[r] EXCEPT !.stage = "woken"]
      [] req[r].proc = p /\ req[r].stage = "deque" -> [req[r] EXCEPT !.stage = "answer"]
      [] OTHER -> req[r]

\* exit_cb: on_exit, enque_all
OnExit(p) ==
    /\ child[p] = "exited"
    /\ child' = [child EXCEPT ![p] = "reaped"]
    /\ exit_status' = [exit_status EXCEPT ![p] = TRUE]
    /\ req' = [r \in Req |-> AfterExit(p, r)]
    /\ destroyer' = IF destroyer = "exit" /\ destroy_task = p THEN "woken" ELSE destroyer
    /\ deque_waiters' = [deque_waiters EXCEPT ![p] = <<>>]
    /\ queue' = IF deque_waiters[p] = <<>> THEN [queue EXCEPT ![p] = Append(@, Exit)] ELSE queue
    /\ told_exit' = [told_exit EXCEPT ![p] = @ \/ deque_waiters[p] # <<>>]
    /\ UNCHANGED <<storageVars, output, consumed, handed, tracked, reading>>

-----------------------------------------------------------------------------
\* Coroutines that were waiting are resumed.

Answer(r) ==
    /\ req[r].stage = "answer"
    /\ req' = [req EXCEPT ![r] = Free]
    /\ UNCHANGED <<storageVars, childVars, streamVars, tracked, reading, destroyer>>

\* the rest of the destroy() that task_cancel awaits
CancelWoken(r) ==
    /\ req[r].stage = "woken"
    /\ tracked' = [tracked EXCEPT ![req[r].proc] = FALSE]
    /\ req' = [req EXCEPT ![r].stage = "erase"]
    /\ UNCHANGED <<storageVars, childVars, streamVars, reading, destroyer>>

\* The entry is erased through the iterator found before the wait.  When
\* another cancel has erased it, that iterator is dead, what the erase does is
\* undefined, and the request is followed no further.
CancelErase(r) ==
    /\ req[r].stage = "erase"
    /\ m[req[r].id] = req[r].proc
    /\ Procs!Erase(req[r].id)
    /\ req' = [req EXCEPT ![r].stage = "answer"]
    /\ UNCHANGED <<childVars, streamVars, tracked, reading, destroyer>>

-----------------------------------------------------------------------------
\* The map: its tick, its destroy() of a proc, its shutdown.

Tick ==
    /\ Procs!Tick
    /\ UNCHANGED <<childVars, streamVars, tracked, reading, req, destroyer>>

DestroyBegin ==
    /\ destroy_task # Null
    /\ to_erase = Null
    /\ destroyer = "idle"
    /\ \/ /\ tracked[destroy_task]
          /\ StopReading(destroy_task)
          /\ destroyer' = WaitForExit(destroy_task)
          /\ UNCHANGED storageVars
       \/ /\ ~tracked[destroy_task]
          /\ Procs!DestroyFinish
          /\ UNCHANGED <<reading, destroyer>>
    /\ UNCHANGED <<childVars, streamVars, tracked, req>>

DestroyWoken ==
    /\ destroyer = "woken"
    /\ destroyer' = "idle"
    /\ tracked' = [tracked EXCEPT ![destroy_task] = FALSE]
    /\ Procs!DestroyFinish
    /\ UNCHANGED <<childVars, streamVars, reading, req>>

\* proc_ctx::shutdown comes after the task slots have none left
Shutdown ==
    /\ \A r \in Req : req[r].stage = "free"
    /\ Procs!Shutdown
    /\ UNCHANGED <<childVars, streamVars, tracked, reading, req, destroyer>>

-----------------------------------------------------------------------------
Requests ==
    \/ \E id \in TaskId, p \in Child : TaskStart(id, p) \/ TaskStartFails(id, p)
    \/ \E r \in Req, id \in TaskId : TaskProgress(r, id) \/ TaskCancel(r, id)

Callback(p) == (\E st \in Stream : ReadOutput(p, st) \/ ReadEnd(p, st)) \/ OnExit(p)

Resume(r) == Answer(r) \/ CancelWoken(r) \/ CancelErase(r)

Next ==
    \/ Requests
    \/ \E p \in Child : (\E st \in Stream : ChildWrites(p, st)) \/ ChildExits(p) \/ Callback(p)
    \/ \E r \in Req : Resume(r)
    \/ Tick
    \/ DestroyBegin \/ DestroyWoken
    \/ Shutdown

Spec == Init /\ [][Next]_vars

\* The loop reaps children, resumes what is ready and ticks; a child that
\* gets SIGTERM exits.
Fairness ==
    /\ \A p \in Child : WF_vars(OnExit(p)) /\ WF_vars(Killed(p) /\ ChildExits(p))
    /\ \A r \in Req : WF_vars(Resume(r))
    /\ WF_vars(Tick)
    /\ WF_vars(DestroyBegin \/ DestroyWoken)

FairSpec == Spec /\ Fairness
=============================================================================
