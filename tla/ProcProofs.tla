----------------------------- MODULE ProcProofs -----------------------------
(***************************************************************************)
(* Proofs about Proc: that no callback comes for a proc that is freed,     *)
(* that nobody waits in vain in the queue of a proc, that output stays in  *)
(* order, and, from the proofs about AsyncStorage, that procs are          *)
(* reclaimed and no child that runs is lost.  A proc is freed only through *)
(* a destroy task, and that ends only when the child is reaped and its     *)
(* streams are not read any more.                                          *)
(***************************************************************************)
EXTENDS ProcProps, SequenceTheorems, FiniteSetTheorems, TLAPS

Plain ==
    [kind : {"none", "progress", "cancel"}, id : TaskId \cup {Null},
     proc : Child \cup {Null}, stage : {"free", "deque", "answer"}]

Canceller ==
    [kind : {"cancel"}, id : TaskId, proc : Child, stage : {"exit", "woken", "erase"}]

Request == Plain \cup Canceller

Types ==
    /\ m \in [TaskId -> Child \cup {Null}]
    /\ mem \in [Child -> {"unused", "allocated", "freed"}]
    /\ to_del \in Seq(Child)
    /\ destroy_task \in Child \cup {Null}
    /\ to_erase \in Child \cup {Null}
    /\ child \in [Child -> {"none", "running", "exited", "reaped"}]
    /\ tracked \in [Child -> BOOLEAN]
    /\ reading \in [Child -> SUBSET Stream]
    /\ queue = [p \in Child |-> queue[p]]
    /\ deque_waiters \in [Child -> Seq(Req)]
    /\ exit_status \in [Child -> BOOLEAN]
    /\ req \in [Req -> Request]
    /\ destroyer \in {"idle", "exit", "woken"}

\* What the map, its list and its destroy task refer to has been allocated.
InUse ==
    /\ \A id \in TaskId : m[id] # Null => mem[m[id]] # "unused" /\ child[m[id]] # "none"
    /\ \A i \in 1..Len(to_del) : mem[to_del[i]] # "unused"
    /\ destroy_task # Null => mem[destroy_task] # "unused"
    /\ to_erase # Null => mem[to_erase] # "unused"

\* Nothing will be called back for p any more.
Gone(p) == child[p] \in {"none", "reaped"} /\ reading[p] = {}

\* A proc is tracked from its start until nothing is called back for it any
\* more; then it may be freed.
Tracked ==
    \A p \in Child :
        /\ mem[p] = "unused" => child[p] = "none"
        /\ child[p] = "none" => ~tracked[p]
        /\ exit_status[p] <=> child[p] = "reaped"
        /\ ~tracked[p] => Gone(p)
        /\ to_erase = p \/ mem[p] = "freed" => Gone(p)

\* Whoever stops a child has stopped the reading of its streams, and goes on
\* when the child is reaped.
Stopping ==
    /\ destroyer # "idle" =>
         /\ destroy_task # Null
         /\ to_erase = Null
         /\ child[destroy_task] # "none"
         /\ reading[destroy_task] = {}
    /\ destroyer = "woken" => exit_status[destroy_task]
    /\ \A r \in Req : req[r].stage \in {"exit", "woken"} =>
         /\ req[r].proc \in Child
         /\ child[req[r].proc] # "none"
         /\ reading[req[r].proc] = {}
         /\ req[r].stage = "woken" => exit_status[req[r].proc]

LifeInv == Types /\ InUse /\ Tracked /\ Stopping

LEMMA LifeInit == Init => LifeInv
BY DEF Init, Procs!Init, Zeros, Free, Request, Plain, LifeInv, Types, InUse, Tracked, Stopping, Gone

-----------------------------------------------------------------------------
\* What the operations of the map do to what matters here.
LEMMA ReleaseQueues ==
  ASSUME Types, InUse, NEW p \in Child, mem[p] # "unused", Procs!Release(p), UNCHANGED mem
  PROVE  /\ to_del' \in Seq(Child)
         /\ \A i \in 1..Len(to_del') : mem'[to_del'[i]] # "unused"
<1>1. CASE to_del' = to_del
  BY <1>1 DEF Types, InUse
<1>2. CASE to_del' = Append(to_del, p)
  BY <1>2 DEF Types, InUse
<1> QED
  BY <1>1, <1>2 DEF Procs!Release

LEMMA TickKeeps ==
  ASSUME LifeInv, Tick
  PROVE  LifeInv'
<1> USE DEF LifeInv
<1>1. /\ UNCHANGED <<m, child, tracked, reading, queue, deque_waiters, exit_status, req,
                     destroyer>>
      /\ to_erase' = Null
      /\ mem' = IF to_erase # Null THEN [mem EXCEPT ![to_erase] = "freed"] ELSE mem
  BY DEF Tick, Procs!Tick, Procs!TickErase, childVars, streamVars
<1>2. \/ /\ Procs!TaskAfterErase = Null /\ to_del # <<>>
         /\ destroy_task' = Head(to_del) /\ to_del' = Tail(to_del)
      \/ /\ destroy_task' \in {destroy_task, Procs!TaskAfterErase} /\ to_del' = to_del
         /\ to_erase = Null => destroy_task' = destroy_task
  BY DEF Tick, Procs!Tick, Procs!TickStart, Procs!TickSignal, Procs!TickRest,
     Procs!TaskAfterErase
<1>3. \A p \in Child : mem[p] # "unused" => mem'[p] # "unused"
  BY <1>1 DEF Types
<1>4. /\ to_del' \in Seq(Child) /\ destroy_task' \in Child \cup {Null}
      /\ \A i \in 1..Len(to_del') : mem'[to_del'[i]] # "unused"
      /\ destroy_task' # Null => mem'[destroy_task'] # "unused"
  <2>1. CASE to_del # <<>> /\ destroy_task' = Head(to_del) /\ to_del' = Tail(to_del)
    <3>1. /\ Head(to_del) = to_del[1] /\ 1 \in 1..Len(to_del)
          /\ Tail(to_del) \in Seq(Child)
          /\ \A i \in 1..Len(Tail(to_del)) :
               Tail(to_del)[i] = to_del[i + 1] /\ i + 1 \in 1..Len(to_del)
      BY <2>1, HeadTailProperties DEF Types
    <3>2. \A i \in 1..Len(to_del) : to_del[i] \in Child /\ mem'[to_del[i]] # "unused"
      BY <1>3, ElementOfSeq DEF Types, InUse
    <3>3. \A i \in 1..Len(to_del') : mem'[to_del'[i]] # "unused"
      BY <2>1, <3>1, <3>2
    <3> QED
      BY <2>1, <3>1, <3>2, <3>3
  <2>2. CASE destroy_task' \in {destroy_task, Procs!TaskAfterErase} /\ to_del' = to_del
    <3>1. \A i \in 1..Len(to_del) : to_del[i] \in Child
      BY ElementOfSeq DEF Types
    <3> QED
      BY <1>3, <2>2, <3>1 DEF Types, InUse, Procs!TaskAfterErase
  <2> QED
    BY <1>2, <2>1, <2>2
<1>5. Types'
  BY <1>1, <1>4 DEF Types
<1>6. InUse'
  BY <1>1, <1>3, <1>4 DEF Types, InUse
<1>7. Tracked'
  <2>1. \A p \in Child : mem'[p] = IF p = to_erase THEN "freed" ELSE mem[p]
    BY <1>1, NullAssumption DEF Types
  <2>2. \A p \in Child : mem'[p] = "freed" => Gone(p)
    BY <2>1 DEF Tracked
  <2> QED
    BY <1>1, <2>1, <2>2, NullAssumption DEF Tracked, Gone
<1>8. Stopping'
  <2>1. destroyer # "idle" => destroy_task' = destroy_task
    BY <1>2 DEF Stopping, Procs!TaskAfterErase
  <2> QED
    BY <1>1, <2>1 DEF Stopping
<1> QED
  BY <1>5, <1>6, <1>7, <1>8

LEMMA LastFinite ==
  ASSUME Types
  PROVE  IsFiniteSet(Procs!LastInMap) /\ Procs!Cardinality(Procs!LastInMap) \in Nat
<1> DEFINE Last == Procs!LastInMap
           K == {id \in TaskId : m[id] \in Last}
           f == [id \in K |-> m[id]]
<1>1. IsFiniteSet(K)
  BY TaskIdAssumption, FS_Subset
<1>2. f \in Surjection(K, Last)
  BY DEF Procs!LastInMap, Surjection
<1>3. IsFiniteSet(Last) /\ Cardinality(Last) \in Nat
  BY <1>1, <1>2, FS_Surjection, FS_CardinalityType
<1> QED
  BY <1>3 DEF Procs!Cardinality, Cardinality

LEMMA ShutdownKeeps ==
  ASSUME LifeInv, Shutdown
  PROVE  LifeInv'
<1> USE DEF LifeInv
<1> DEFINE Last == Procs!LastInMap
<1>1. PICK q \in [1..Procs!Cardinality(Last) -> Last] : to_del' = to_del \o q
  BY DEF Shutdown, Procs!Shutdown
<1>2. /\ m' = [id \in TaskId |-> Null]
      /\ UNCHANGED <<mem, destroy_task, to_erase, child, tracked, reading, queue,
                     deque_waiters, exit_status, req, destroyer>>
  BY DEF Shutdown, Procs!Shutdown, childVars, streamVars
<1>3. \A p \in Last : p \in Child /\ mem[p] # "unused"
  BY NullAssumption DEF Procs!LastInMap, InUse
<1>4. q \in Seq(Child) /\ Len(q) = Procs!Cardinality(Last)
  <2>1. q \in [1..Procs!Cardinality(Last) -> Child]
    BY <1>3
  <2>2. q \in Seq(Child)
    BY <2>1, LastFinite, SeqDef
  <2> QED
    BY <2>2, LastFinite, LenProperties
<1>5. \A i \in 1..Len(q) : mem[q[i]] # "unused"
  BY <1>3, <1>4
<1>6. to_del' \in Seq(Child)
  BY <1>1, <1>4, ConcatProperties DEF Types
<1>7. \A i \in 1..Len(to_del') : mem[to_del'[i]] # "unused"
  <2> SUFFICES ASSUME NEW i \in 1..Len(to_del') PROVE mem[to_del'[i]] # "unused"
    OBVIOUS
  <2>1. Len(to_del') = Len(to_del) + Len(q) /\ Len(to_del) \in Nat /\ Len(q) \in Nat
    BY <1>1, <1>4, ConcatProperties, LenProperties, ZenonT(30) DEF Types
  <2>2. CASE i <= Len(to_del)
    BY <1>1, <1>4, <2>1, <2>2, ConcatProperties DEF Types, InUse
  <2>3. CASE i > Len(to_del)
    <3>1. to_del'[i] = q[i - Len(to_del)]
      BY <1>1, <1>4, <2>1, <2>3, ConcatProperties DEF Types
    <3>2. i - Len(to_del) \in 1..Len(q)
      BY <2>1, <2>3
    <3> QED
      BY <1>5, <3>1, <3>2
  <2> QED
    BY <2>1, <2>2, <2>3
<1>8. Types'
  BY <1>2, <1>6 DEF Types
<1>9. InUse'
  BY <1>2, <1>7 DEF InUse
<1>10. Tracked' /\ Stopping'
  BY <1>2 DEF Tracked, Stopping, Gone
<1> QED
  BY <1>8, <1>9, <1>10

-----------------------------------------------------------------------------
\* What the requests do.
LEMMA TaskStartKeeps ==
  ASSUME LifeInv, NEW id \in TaskId, NEW q \in Child, TaskStart(id, q)
  PROVE  LifeInv'
<1> USE DEF LifeInv
<1>1. /\ m[id] = Null /\ mem[q] = "unused"
      /\ m' = [m EXCEPT ![id] = q]
      /\ mem' = [mem EXCEPT ![q] = "allocated"]
      /\ child' = [child EXCEPT ![q] = "running"]
      /\ tracked' = [tracked EXCEPT ![q] = TRUE]
      /\ \E S \in SUBSET Stream : reading' = [reading EXCEPT ![q] = S]
      /\ UNCHANGED <<to_del, destroy_task, to_erase, queue, deque_waiters, exit_status, req,
                     destroyer>>
  BY DEF TaskStart, Procs!TryEmplace, Procs!Allocate, streamVars
<1>2. child[q] = "none" /\ ~exit_status[q] /\ to_erase # q
  BY <1>1, NullAssumption DEF Tracked, InUse
<1>3. Types'
  BY <1>1 DEF Types
<1>4. InUse'
  <2>1. \A i \in 1..Len(to_del) : to_del[i] \in Child
    BY ElementOfSeq DEF Types
  <2> QED
    BY <1>1, <2>1 DEF Types, InUse
<1>5. Tracked'
  BY <1>1, <1>2 DEF Types, Tracked, Gone
<1>6. Stopping'
  BY <1>1, <1>2 DEF Types, Stopping
<1> QED
  BY <1>3, <1>4, <1>5, <1>6

LEMMA TaskStartFailsKeeps ==
  ASSUME LifeInv, NEW id \in TaskId, NEW q \in Child, TaskStartFails(id, q)
  PROVE  LifeInv'
<1> USE DEF LifeInv
<1>1. /\ mem[q] = "unused"
      /\ mem' = [mem EXCEPT ![q] = "allocated"]
      /\ to_del' = Append(to_del, q)
      /\ UNCHANGED <<m, destroy_task, to_erase, child, tracked, reading, queue, deque_waiters,
                     exit_status, req, destroyer>>
  BY DEF TaskStartFails, streamVars, childVars
<1>2. Types'
  BY <1>1 DEF Types
<1>3. InUse'
  <2>1. \A i \in 1..Len(to_del) : to_del[i] \in Child
    BY ElementOfSeq DEF Types
  <2>2. \A i \in 1..Len(to_del') : to_del'[i] = q \/ (i \in 1..Len(to_del) /\ to_del'[i] = to_del[i])
    BY <1>1, AppendProperties DEF Types
  <2> QED
    BY <1>1, <2>1, <2>2 DEF Types, InUse
<1>4. Tracked'
  BY <1>1 DEF Types, Tracked, Gone
<1>5. Stopping'
  BY <1>1 DEF Stopping
<1> QED
  BY <1>2, <1>3, <1>4, <1>5

\* What a step leaves alone that changes only requests and queues.
LEMMA OnlyRequests ==
  ASSUME LifeInv, Types',
         UNCHANGED <<m, mem, to_del, destroy_task, to_erase, child, tracked, reading,
                     exit_status, destroyer>>,
         \A r \in Req : req'[r].stage \in {"exit", "woken"} =>
            req'[r].stage = req[r].stage /\ req'[r].proc = req[r].proc
  PROVE  LifeInv'
<1> USE DEF LifeInv
<1>1. InUse' /\ Tracked'
  BY DEF InUse, Tracked, Gone
<1>2. Stopping'
  BY DEF Stopping
<1> QED
  BY <1>1, <1>2

\* What a step changes that handles a request, or that answers one.
LEMMA HandleProgress ==
  ASSUME Types, NEW r \in Req, NEW id \in TaskId, NEW stage \in {"deque", "answer"},
         Handle(r, "progress", id, stage)
  PROVE  /\ req' \in [Req -> Request]
         /\ req'[r].kind = "progress" /\ req'[r].proc = m[id] /\ req'[r].stage = stage
         /\ \A s \in Req : s # r => req'[s] = req[s]
BY DEF Types, Request, Plain, Handle

LEMMA HandleCancel ==
  ASSUME Types, NEW r \in Req, NEW id \in TaskId, NEW stage \in {"exit", "woken", "erase"},
         m[id] # Null, Handle(r, "cancel", id, stage)
  PROVE  /\ req' \in [Req -> Request]
         /\ req'[r].kind = "cancel" /\ req'[r].id = id /\ req'[r].proc = m[id]
         /\ req'[r].stage = stage
         /\ \A s \in Req : s # r => req'[s] = req[s]
BY DEF Types, Request, Canceller, Handle

LEMMA StageType ==
  ASSUME NEW q \in Request
  PROVE  /\ [q EXCEPT !.stage = "answer"] \in Request
         /\ [q EXCEPT !.stage = "answer"].stage = "answer"
         /\ q.stage \in {"exit", "woken", "erase"} =>
              /\ q \in Canceller
              /\ [q EXCEPT !.stage = "woken"] \in Request
              /\ [q EXCEPT !.stage = "erase"] \in Request
         /\ q.kind \in {"none", "progress", "cancel"}
         /\ q.stage \in {"free", "deque", "answer", "exit", "woken", "erase"}
<1>1. CASE q \in Plain
  BY <1>1 DEF Request, Plain
<1>2. CASE q \in Canceller
  <2>1. q = [kind |-> q.kind, id |-> q.id, proc |-> q.proc, stage |-> q.stage]
    BY <1>2 DEF Canceller
  <2> QED
    BY <1>2, <2>1 DEF Request, Plain, Canceller
<1> QED
  BY <1>1, <1>2 DEF Request

LEMMA TaskProgressKeeps ==
  ASSUME LifeInv, NEW r \in Req, NEW id \in TaskId, TaskProgress(r, id)
  PROVE  LifeInv'
<1> USE DEF LifeInv
<1>1. UNCHANGED <<m, mem, to_del, destroy_task, to_erase, child, tracked, reading,
                  exit_status, destroyer>>
  BY DEF TaskProgress, storageVars, childVars
<1>2. PICK stage \in {"answer", "deque"} :
        /\ Handle(r, "progress", id, stage)
        /\ queue' = [queue EXCEPT ![m[id]] = Tail(@)] \/ queue' = queue
        /\ \/ deque_waiters' = [deque_waiters EXCEPT ![m[id]] = Append(@, r)]
           \/ deque_waiters' = deque_waiters
  BY DEF TaskProgress
<1>3. /\ req' \in [Req -> Request] /\ req'[r].stage = stage
      /\ \A s \in Req : s # r => req'[s] = req[s]
  BY <1>2, HandleProgress
<1>4. m[id] \in Child
  BY DEF TaskProgress, Types
<1>5. deque_waiters' \in [Child -> Seq(Req)]
  <2>1. deque_waiters[m[id]] \in Seq(Req)
    BY <1>4 DEF Types
  <2>2. Append(deque_waiters[m[id]], r) \in Seq(Req)
    BY <2>1, AppendProperties
  <2> QED
    BY <1>2, <1>4, <2>2 DEF Types
<1>6. queue' = [p \in Child |-> queue'[p]]
  BY <1>2 DEF Types
<1>7. Types'
  BY <1>1, <1>3, <1>5, <1>6 DEF Types
<1> QED
  BY <1>1, <1>3, <1>7, OnlyRequests

LEMMA TaskCancelKeeps ==
  ASSUME LifeInv, NEW r \in Req, NEW id \in TaskId, TaskCancel(r, id)
  PROVE  LifeInv'
<1> USE DEF LifeInv
<1> DEFINE p == m[id]
<1>1. /\ p \in Child
      /\ UNCHANGED <<m, mem, to_del, destroy_task, to_erase, child, tracked, queue,
                     deque_waiters, exit_status, destroyer>>
  BY DEF TaskCancel, storageVars, childVars, streamVars, Types
<1>2. CASE tracked[p] /\ StopReading(p) /\ Handle(r, "cancel", id, WaitForExit(p))
  <2>1. reading' = [reading EXCEPT ![p] = {}]
    BY <1>2 DEF StopReading
  <2>2. /\ req' \in [Req -> Request] /\ req'[r].proc = p
        /\ req'[r].stage = IF exit_status[p] THEN "woken" ELSE "exit"
        /\ \A s \in Req : s # r => req'[s] = req[s]
    BY <1>1, <1>2, HandleCancel, NullAssumption DEF WaitForExit
  <2>3. \A o \in Child : reading'[o] = IF o = p THEN {} ELSE reading[o]
    BY <1>1, <2>1 DEF Types
  <2>4. Types'
    BY <1>1, <2>1, <2>2 DEF Types
  <2>5. InUse'
    BY <1>1 DEF InUse
  <2>6. Tracked'
    BY <1>1, <2>3 DEF Tracked, Gone
  <2>7. child[p] # "none"
    BY <1>2, <1>1 DEF Tracked
  <2>8. Stopping'
    <3> HIDE DEF p
    <3>1. (destroyer # "idle" => reading'[destroy_task] = {})
      BY <2>3 DEF Stopping, Types
    <3>2. ASSUME NEW s \in Req, req'[s].stage \in {"exit", "woken"}
          PROVE  /\ req'[s].proc \in Child
                 /\ child[req'[s].proc] # "none"
                 /\ reading'[req'[s].proc] = {}
                 /\ req'[s].stage = "woken" => exit_status[req'[s].proc]
      BY <1>1, <2>2, <2>3, <2>7, <3>2 DEF Stopping
    <3> QED
      BY <1>1, <3>1, <3>2 DEF Stopping
  <2> QED
    BY <2>4, <2>5, <2>6, <2>8
<1>3. CASE Handle(r, "cancel", id, "erase") /\ UNCHANGED reading
  <2>1. /\ req' \in [Req -> Request] /\ req'[r].stage = "erase"
        /\ \A s \in Req : s # r => req'[s] = req[s]
    BY <1>1, <1>3, HandleCancel, NullAssumption
  <2>2. Types'
    BY <1>1, <1>3, <2>1 DEF Types
  <2> QED
    BY <1>1, <1>3, <2>1, <2>2, OnlyRequests
<1> QED
  BY <1>2, <1>3 DEF TaskCancel

-----------------------------------------------------------------------------
\* What the children do, and what the loop calls back.
LEMMA ChildExitsKeeps ==
  ASSUME LifeInv, NEW q \in Child, ChildExits(q)
  PROVE  LifeInv'
<1> USE DEF LifeInv
<1>1. /\ child[q] = "running"
      /\ child' = [child EXCEPT ![q] = "exited"]
      /\ UNCHANGED <<m, mem, to_del, destroy_task, to_erase, tracked, reading, queue,
                     deque_waiters, exit_status, req, destroyer>>
  BY DEF ChildExits, storageVars, streamVars
<1>2. Types' /\ InUse'
  BY <1>1 DEF Types, InUse
<1>3. Tracked'
  BY <1>1 DEF Types, Tracked, Gone
<1>4. Stopping'
  BY <1>1 DEF Types, Stopping
<1> QED
  BY <1>2, <1>3, <1>4

LEMMA EnqueType ==
  ASSUME Types, NEW q \in Child, NEW e, Enque(q, e)
  PROVE  /\ queue' = [p \in Child |-> queue'[p]]
         /\ deque_waiters' \in [Child -> Seq(Req)]
         /\ req' \in [Req -> Request]
         /\ \A r \in Req : req'[r] = req[r] \/ req'[r].stage = "answer"
<1>1. CASE /\ queue' = [queue EXCEPT ![q] = Append(@, e)]
           /\ UNCHANGED <<deque_waiters, handed, told_exit, req>>
  BY <1>1 DEF Types
<1>2. CASE /\ deque_waiters[q] # <<>>
           /\ deque_waiters' = [deque_waiters EXCEPT ![q] = Tail(@)]
           /\ req' = [req EXCEPT ![Head(deque_waiters[q])].stage = "answer"]
           /\ UNCHANGED queue
  <2>1. deque_waiters[q] \in Seq(Req)
    BY DEF Types
  <2>2. Tail(deque_waiters[q]) \in Seq(Req) /\ Head(deque_waiters[q]) \in Req
    BY <1>2, <2>1, HeadTailProperties
  <2>3. deque_waiters' \in [Child -> Seq(Req)]
    BY <1>2, <2>2 DEF Types
  <2>4. /\ req' \in [Req -> Request]
        /\ \A r \in Req : req'[r] = req[r] \/ req'[r].stage = "answer"
    <3> DEFINE h == Head(deque_waiters[q])
    <3>1. req[h] \in Request
      BY <2>2 DEF Types
    <3>2. /\ [req[h] EXCEPT !.stage = "answer"] \in Request
          /\ [req[h] EXCEPT !.stage = "answer"].stage = "answer"
      BY <3>1, StageType
    <3>3. req' = [req EXCEPT ![h] = [req[h] EXCEPT !.stage = "answer"]]
      BY <1>2
    <3> HIDE DEF h
    <3> QED
      BY <3>2, <3>3 DEF Types
  <2> QED
    BY <1>2, <2>3, <2>4 DEF Types
<1> QED
  BY <1>1, <1>2 DEF Enque

LEMMA ReadOutputKeeps ==
  ASSUME LifeInv, NEW q \in Child, NEW st \in Stream, ReadOutput(q, st)
  PROVE  LifeInv'
<1> USE DEF LifeInv
<1>1. /\ UNCHANGED <<m, mem, to_del, destroy_task, to_erase, child, tracked, reading,
                     exit_status, destroyer>>
      /\ Enque(q, [kind |-> st, n |-> consumed[q][st] + 1])
  BY DEF ReadOutput, storageVars, childVars
<1>2. Types'
  BY <1>1, EnqueType DEF Types
<1>3. \A r \in Req : req'[r] = req[r] \/ req'[r].stage = "answer"
  BY <1>1, EnqueType
<1> QED
  BY <1>1, <1>2, <1>3, OnlyRequests

LEMMA ReadEndKeeps ==
  ASSUME LifeInv, NEW q \in Child, NEW st \in Stream, ReadEnd(q, st)
  PROVE  LifeInv'
<1> USE DEF LifeInv
<1>1. /\ reading' = [reading EXCEPT ![q] = @ \ {st}]
      /\ UNCHANGED <<m, mem, to_del, destroy_task, to_erase, child, tracked, queue,
                     deque_waiters, exit_status, req, destroyer>>
  BY DEF ReadEnd, storageVars, streamVars, childVars
<1>2. \A p \in Child : reading'[p] \subseteq reading[p]
  BY <1>1 DEF Types
<1>3. Types' /\ InUse'
  BY <1>1 DEF Types, InUse
<1>4. \A p \in Child : reading[p] = {} => reading'[p] = {}
  BY <1>2
<1>5. Tracked'
  BY <1>1, <1>4 DEF Tracked, Gone
<1>6. Stopping'
  BY <1>1, <1>4 DEF Types, Stopping
<1> QED
  BY <1>3, <1>5, <1>6

LEMMA OnExitKeeps ==
  ASSUME LifeInv, NEW q \in Child, OnExit(q)
  PROVE  LifeInv'
<1> USE DEF LifeInv
<1>1. /\ child[q] = "exited"
      /\ child' = [child EXCEPT ![q] = "reaped"]
      /\ exit_status' = [exit_status EXCEPT ![q] = TRUE]
      /\ req' = [r \in Req |-> AfterExit(q, r)]
      /\ destroyer' = IF destroyer = "exit" /\ destroy_task = q THEN "woken" ELSE destroyer
      /\ deque_waiters' = [deque_waiters EXCEPT ![q] = <<>>]
      /\ UNCHANGED <<m, mem, to_del, destroy_task, to_erase, tracked, reading>>
      /\ queue' = [queue EXCEPT ![q] = Append(@, Exit)] \/ queue' = queue
  BY DEF OnExit, storageVars
<1>2. req' \in [Req -> Request]
  <2>1. \A r \in Req : AfterExit(q, r) \in Request
    BY StageType DEF AfterExit, Types
  <2> QED
    BY <1>1, <2>1
<1>3. Types'
  BY <1>1, <1>2 DEF Types
<1>4. InUse'
  BY <1>1 DEF Types, InUse
<1>5. Tracked'
  BY <1>1 DEF Types, Tracked, Gone
<1>6. ASSUME NEW r \in Req, req'[r].stage \in {"exit", "woken"}
      PROVE  /\ req[r].stage \in {"exit", "woken"} /\ req'[r].proc = req[r].proc
             /\ req'[r].stage = "woken" =>
                  req[r].stage = "woken" \/ req[r].proc = q
  <2>1. req[r] \in Request
    BY DEF Types
  <2>2. CASE req[r].proc = q /\ req[r].stage = "exit"
    <3>1. req'[r] = [req[r] EXCEPT !.stage = "woken"]
      BY <1>1, <2>2 DEF AfterExit
    <3> QED
      BY <2>1, <2>2, <3>1, StageType DEF Canceller
  <2>3. CASE ~(req[r].proc = q /\ req[r].stage = "exit") /\ req[r].proc = q
               /\ req[r].stage = "deque"
    <3>1. req'[r] = [req[r] EXCEPT !.stage = "answer"]
      BY <1>1, <2>3 DEF AfterExit
    <3>2. req'[r].stage = "answer"
      BY <2>1, <3>1 DEF Request, Plain, Canceller
    <3> QED
      BY <1>6, <3>2
  <2>4. CASE /\ ~(req[r].proc = q /\ req[r].stage = "exit")
             /\ ~(req[r].proc = q /\ req[r].stage = "deque")
    BY <1>1, <1>6, <2>4 DEF AfterExit
  <2> QED
    BY <2>2, <2>3, <2>4
<1>7. Stopping'
  <2>1. \A p \in Child : child[p] # "none" => child'[p] # "none"
    BY <1>1 DEF Types
  <2>2. \A p \in Child : exit_status[p] \/ p = q => exit_status'[p]
    BY <1>1 DEF Types
  <2>3. ASSUME NEW r \in Req, req'[r].stage \in {"exit", "woken"}
        PROVE  /\ req'[r].proc \in Child
               /\ child'[req'[r].proc] # "none"
               /\ reading'[req'[r].proc] = {}
               /\ req'[r].stage = "woken" => exit_status'[req'[r].proc]
    BY <1>1, <1>6, <2>1, <2>2, <2>3 DEF Stopping
  <2>4. /\ destroyer' # "idle" =>
             /\ destroy_task' # Null /\ to_erase' = Null
             /\ child'[destroy_task'] # "none" /\ reading'[destroy_task'] = {}
        /\ destroyer' = "woken" => exit_status'[destroy_task']
    BY <1>1, <2>1, <2>2 DEF Stopping, Types
  <2> QED
    BY <2>3, <2>4 DEF Stopping
<1> QED
  BY <1>3, <1>4, <1>5, <1>7

-----------------------------------------------------------------------------
\* What the resumed coroutines do, and the destroy task.
LEMMA AnswerKeeps ==
  ASSUME LifeInv, NEW r \in Req, Answer(r)
  PROVE  LifeInv'
<1> USE DEF LifeInv
<1>1. /\ req' = [req EXCEPT ![r] = Free]
      /\ UNCHANGED <<m, mem, to_del, destroy_task, to_erase, child, tracked, reading, queue,
                     deque_waiters, exit_status, destroyer>>
  BY DEF Answer, storageVars, streamVars, childVars
<1>2. Free \in Request
  BY DEF Free, Request, Plain
<1>3. Types' /\ \A s \in Req : req'[s] = req[s] \/ req'[s].stage = "free"
  BY <1>1, <1>2 DEF Types, Free
<1> QED
  BY <1>1, <1>3, OnlyRequests

LEMMA CancelWokenKeeps ==
  ASSUME LifeInv, NEW r \in Req, CancelWoken(r)
  PROVE  LifeInv'
<1> USE DEF LifeInv
<1> DEFINE p == req[r].proc
<1>1. /\ req[r].stage = "woken"
      /\ tracked' = [tracked EXCEPT ![p] = FALSE]
      /\ req' = [req EXCEPT ![r].stage = "erase"]
      /\ UNCHANGED <<m, mem, to_del, destroy_task, to_erase, child, reading, queue,
                     deque_waiters, exit_status, destroyer>>
  BY DEF CancelWoken, storageVars, streamVars, childVars
<1>2. p \in Child /\ exit_status[p] /\ reading[p] = {}
  BY <1>1 DEF Stopping
<1>3. Gone(p)
  BY <1>2 DEF Tracked, Gone
<1>4. /\ req' \in [Req -> Request]
      /\ \A s \in Req : req'[s] = req[s] \/ req'[s].stage = "erase"
  <2>1. req[r] \in Request /\ req[r] \in Canceller
    BY <1>1, StageType DEF Types
  <2>2. [req[r] EXCEPT !.stage = "erase"] \in Request
    BY <1>1, <2>1, StageType
  <2>3. [req[r] EXCEPT !.stage = "erase"].stage = "erase"
    BY <2>1 DEF Canceller
  <2> QED
    BY <1>1, <2>2, <2>3 DEF Types
<1>5. Types' /\ InUse'
  BY <1>1, <1>4 DEF Types, InUse
<1>6. Tracked'
  BY <1>1, <1>2, <1>3 DEF Types, Tracked, Gone
<1>7. Stopping'
  BY <1>1, <1>4 DEF Stopping
<1> QED
  BY <1>5, <1>6, <1>7

LEMMA CancelEraseKeeps ==
  ASSUME LifeInv, NEW r \in Req, CancelErase(r)
  PROVE  LifeInv'
<1> USE DEF LifeInv
<1> DEFINE p == req[r].proc
<1>1. /\ m[req[r].id] = p /\ Procs!Erase(req[r].id)
      /\ req' = [req EXCEPT ![r].stage = "answer"]
      /\ UNCHANGED <<child, tracked, reading, queue, deque_waiters, exit_status, destroyer>>
  BY DEF CancelErase, streamVars, childVars
<1>2. /\ p # Null /\ m' = [m EXCEPT ![req[r].id] = Null]
      /\ Procs!Release(p)
      /\ UNCHANGED <<mem, destroy_task, to_erase>>
  BY <1>1 DEF Procs!Erase
<1>3. p \in Child /\ req[r].id \in TaskId
  <2>1. req[r] \in Request /\ req[r].stage = "erase"
    BY DEF CancelErase, Types
  <2>2. req[r] \in Canceller
    BY <2>1, StageType
  <2> QED
    BY <2>2 DEF Canceller
<1>4. mem[p] # "unused"
  BY <1>1, <1>2, <1>3 DEF InUse
<1>5. /\ to_del' \in Seq(Child)
      /\ \A i \in 1..Len(to_del') : mem'[to_del'[i]] # "unused"
  BY <1>2, <1>3, <1>4, ReleaseQueues
<1>6. /\ req' \in [Req -> Request]
      /\ \A s \in Req : req'[s] = req[s] \/ req'[s].stage = "answer"
  <2>1. req[r] \in Request /\ req[r] \in Canceller
    BY StageType DEF CancelErase, Types
  <2>2. [req[r] EXCEPT !.stage = "answer"] \in Request
    BY <2>1, StageType
  <2>3. [req[r] EXCEPT !.stage = "answer"].stage = "answer"
    BY <2>1 DEF Canceller
  <2> QED
    BY <1>1, <2>2, <2>3 DEF Types
<1>7. Types'
  BY <1>1, <1>2, <1>3, <1>5, <1>6 DEF Types
<1>8. InUse'
  BY <1>1, <1>2, <1>3, <1>5 DEF Types, InUse
<1>9. Tracked'
  BY <1>1, <1>2 DEF Tracked, Gone
<1>10. Stopping'
  BY <1>1, <1>2, <1>6 DEF Stopping
<1> QED
  BY <1>7, <1>8, <1>9, <1>10

\* What ends a destroy task.
LEMMA FinishKeeps ==
  ASSUME LifeInv, Procs!DestroyFinish,
         UNCHANGED <<child, reading, queue, deque_waiters, exit_status, req>>,
         Gone(destroy_task), destroyer' = "idle",
         tracked' \in {tracked, [tracked EXCEPT ![destroy_task] = FALSE]}
  PROVE  LifeInv'
<1> USE DEF LifeInv
<1>1. /\ destroy_task \in Child /\ to_erase = Null /\ to_erase' = destroy_task
      /\ UNCHANGED <<m, mem, to_del, destroy_task>>
  BY DEF Procs!DestroyFinish, Types
<1>2. Types' /\ InUse'
  BY <1>1, NullAssumption DEF Types, InUse
<1>3. Tracked'
  BY <1>1 DEF Types, Tracked, Gone
<1>4. Stopping'
  BY <1>1 DEF Stopping
<1> QED
  BY <1>2, <1>3, <1>4

LEMMA DestroyBeginKeeps ==
  ASSUME LifeInv, DestroyBegin
  PROVE  LifeInv'
<1> USE DEF LifeInv
<1> DEFINE p == destroy_task
<1>1. /\ p \in Child /\ to_erase = Null /\ destroyer = "idle"
      /\ UNCHANGED <<child, tracked, queue, deque_waiters, exit_status, req>>
  BY DEF DestroyBegin, Types, childVars, streamVars
<1>2. CASE tracked[p] /\ StopReading(p) /\ destroyer' = WaitForExit(p) /\ UNCHANGED storageVars
  <2>1. /\ reading' = [reading EXCEPT ![p] = {}]
        /\ UNCHANGED <<m, mem, to_del, destroy_task, to_erase>>
        /\ destroyer' = IF exit_status[p] THEN "woken" ELSE "exit"
    BY <1>2 DEF StopReading, WaitForExit, storageVars
  <2>2. \A o \in Child : reading'[o] = IF o = p THEN {} ELSE reading[o]
    BY <1>1, <2>1 DEF Types
  <2>3. Types' /\ InUse'
    BY <1>1, <2>1 DEF Types, InUse
  <2>4. Tracked'
    BY <1>1, <2>1, <2>2 DEF Tracked, Gone
  <2>5. Stopping'
    BY <1>1, <1>2, <2>1, <2>2, NullAssumption DEF Tracked, Stopping
  <2> QED
    BY <2>3, <2>4, <2>5
<1>3. CASE ~tracked[p] /\ Procs!DestroyFinish /\ UNCHANGED <<reading, destroyer>>
  BY <1>1, <1>3, FinishKeeps DEF Tracked
<1> QED
  BY <1>2, <1>3 DEF DestroyBegin

LEMMA DestroyWokenKeeps ==
  ASSUME LifeInv, DestroyWoken
  PROVE  LifeInv'
<1> USE DEF LifeInv
<1>1. /\ destroyer = "woken" /\ destroyer' = "idle"
      /\ tracked' = [tracked EXCEPT ![destroy_task] = FALSE]
      /\ Procs!DestroyFinish
      /\ UNCHANGED <<child, reading, queue, deque_waiters, exit_status, req>>
  BY DEF DestroyWoken, childVars, streamVars
<1>2. Gone(destroy_task)
  BY <1>1 DEF Stopping, Tracked, Gone, Types
<1> QED
  BY <1>1, <1>2, FinishKeeps

LEMMA LifeStep == LifeInv /\ [Next]_vars => LifeInv'
<1> SUFFICES ASSUME LifeInv, [Next]_vars PROVE LifeInv'
  OBVIOUS
<1>1. ASSUME NEW id \in TaskId, NEW p \in Child, TaskStart(id, p) \/ TaskStartFails(id, p)
      PROVE  LifeInv'
  BY <1>1, TaskStartKeeps, TaskStartFailsKeeps
<1>2. ASSUME NEW r \in Req, NEW id \in TaskId, TaskProgress(r, id) \/ TaskCancel(r, id)
      PROVE  LifeInv'
  BY <1>2, TaskProgressKeeps, TaskCancelKeeps
<1>3. ASSUME NEW p \in Child, NEW st \in Stream, ChildWrites(p, st)
      PROVE  LifeInv'
  BY <1>3 DEF ChildWrites, storageVars, streamVars, LifeInv, Types, InUse, Tracked, Gone,
     Stopping
<1>4. ASSUME NEW p \in Child, ChildExits(p) \/ OnExit(p)
      PROVE  LifeInv'
  BY <1>4, ChildExitsKeeps, OnExitKeeps
<1>5. ASSUME NEW p \in Child, NEW st \in Stream, ReadOutput(p, st) \/ ReadEnd(p, st)
      PROVE  LifeInv'
  BY <1>5, ReadOutputKeeps, ReadEndKeeps
<1>6. ASSUME NEW r \in Req, Resume(r)
      PROVE  LifeInv'
  BY <1>6, AnswerKeeps, CancelWokenKeeps, CancelEraseKeeps DEF Resume
<1>7. CASE Tick \/ Shutdown
  BY <1>7, TickKeeps, ShutdownKeeps
<1>8. CASE DestroyBegin \/ DestroyWoken
  BY <1>8, DestroyBeginKeeps, DestroyWokenKeeps
<1>9. CASE UNCHANGED vars
  BY <1>9 DEF vars, storageVars, childVars, streamVars, LifeInv, Types, InUse, Tracked, Gone,
     Stopping
<1> QED
  BY <1>1, <1>2, <1>3, <1>4, <1>5, <1>6, <1>7, <1>8, <1>9 DEF Next, Requests, Callback

LEMMA LifeAlways == Spec => []LifeInv
<1> QED
  BY LifeInit, LifeStep, PTL DEF Spec

\* No callback comes for a proc whose memory is gone: destroy() clears
\* process.data, and with it lets the proc be freed, only after the exit
\* callback and with its streams stopped (process.hpp:208-220).
THEOREM ProcsOutliveCallbacks == Spec => []CallbacksHaveProc
<1>1. LifeInv => CallbacksHaveProc
  <2> SUFFICES ASSUME LifeInv, NEW p \in Child,
                      child[p] \in {"running", "exited"} \/ reading[p] # {}
               PROVE  mem[p] = "allocated"
    BY DEF CallbacksHaveProc
  <2>1. ~Gone(p)
    BY DEF Gone
  <2>2. child[p] # "none"
    BY <2>1 DEF LifeInv, Tracked, Gone
  <2> QED
    BY <2>1, <2>2 DEF LifeInv, Types, Tracked
<1> QED
  BY <1>1, LifeAlways, PTL

-----------------------------------------------------------------------------
\* The requests that wait in a queue.
AtExit == {"exit", "woken", "erase"}

\* A change of the stage is none of the rest of a request.
LEMMA StageOnly ==
  ASSUME NEW q \in Request, NEW stage
  PROVE  /\ [q EXCEPT !.stage = stage].kind = q.kind
         /\ [q EXCEPT !.stage = stage].id = q.id
         /\ [q EXCEPT !.stage = stage].proc = q.proc
         /\ [q EXCEPT !.stage = stage].stage = stage
BY DEF Request, Plain, Canceller

Waiters(p) ==
    /\ deque_waiters[p] # <<>> => queue[p] = <<>> /\ ~exit_status[p] /\ child[p] # "none"
    /\ \A i \in 1..Len(deque_waiters[p]) :
         req[deque_waiters[p][i]].stage = "deque" /\ req[deque_waiters[p][i]].proc = p
    /\ \A r \in Req : req[r].stage = "deque" /\ req[r].proc = p =>
         \E i \in 1..Len(deque_waiters[p]) : deque_waiters[p][i] = r
    /\ \A i, j \in 1..Len(deque_waiters[p]) :
         deque_waiters[p][i] = deque_waiters[p][j] => i = j

WaitInv == LifeInv /\ \A p \in Child : Waiters(p)

LEMMA WaitInit == Init => WaitInv
BY LifeInit DEF Init, Free, WaitInv, Waiters

\* A step that leaves the queue of p and those who wait in it alone.
LEMMA WaitersKept ==
  ASSUME LifeInv, NEW p \in Child, Waiters(p),
         queue'[p] = queue[p], deque_waiters'[p] = deque_waiters[p],
         exit_status'[p] = exit_status[p],
         child[p] # "none" => child'[p] # "none",
         \A r \in Req : (req[r].stage = "deque" /\ req[r].proc = p)
                          \/ (req'[r].stage = "deque" /\ req'[r].proc = p)
                          => req'[r] = req[r]
  PROVE  Waiters(p)'
<1>1. \A i \in 1..Len(deque_waiters[p]) : deque_waiters[p][i] \in Req
  BY ElementOfSeq DEF LifeInv, Types
<1> QED
  BY <1>1 DEF Waiters

\* One more waits.
LEMMA OneWaits ==
  ASSUME LifeInv, NEW p \in Child, Waiters(p), NEW r \in Req, req[r].stage # "deque",
         queue[p] = <<>>, ~exit_status[p], child[p] # "none",
         deque_waiters' = [deque_waiters EXCEPT ![p] = Append(@, r)],
         UNCHANGED <<queue, exit_status, child>>,
         req'[r].stage = "deque", req'[r].proc = p,
         \A s \in Req : s # r => req'[s] = req[s]
  PROVE  Waiters(p)'
<1> DEFINE q == deque_waiters[p]
           n == Len(q) + 1
<1>1. q \in Seq(Req)
  BY DEF LifeInv, Types
<1>2. deque_waiters'[p] = Append(q, r)
  BY DEF LifeInv, Types
<1>3. /\ Len(deque_waiters'[p]) = n /\ deque_waiters'[p][n] = r
      /\ n \in 1..n
      /\ \A i \in 1..n : i = n \/ i \in 1..Len(q)
      /\ \A i \in 1..Len(q) : i \in 1..n /\ deque_waiters'[p][i] = q[i]
  BY <1>1, <1>2, AppendProperties, LenProperties
<1>4. \A i \in 1..Len(q) : q[i] \in Req /\ q[i] # r
  BY <1>1, ElementOfSeq DEF Waiters
<1> DEFINE w == deque_waiters'[p]
<1> HIDE DEF n
<1>5. \A i \in 1..n : req'[w[i]].stage = "deque" /\ req'[w[i]].proc = p
  BY <1>3, <1>4 DEF Waiters
<1>6. \A s \in Req : req'[s].stage = "deque" /\ req'[s].proc = p => \E i \in 1..n : w[i] = s
  <2> SUFFICES ASSUME NEW s \in Req, req'[s].stage = "deque", req'[s].proc = p
               PROVE  \E i \in 1..n : w[i] = s
    OBVIOUS
  <2>1. CASE s = r
    BY <1>3, <2>1
  <2>2. CASE s # r
    BY <1>3, <2>2 DEF Waiters
  <2> QED
    BY <2>1, <2>2
<1>7. \A i, j \in 1..n : w[i] = w[j] => i = j
  BY <1>3, <1>4 DEF Waiters
<1> HIDE DEF q
<1> QED
  BY <1>3, <1>5, <1>6, <1>7 DEF Waiters

\* The first one is answered.
LEMMA FirstAnswered ==
  ASSUME LifeInv, NEW p \in Child, Waiters(p), deque_waiters[p] # <<>>,
         deque_waiters' = [deque_waiters EXCEPT ![p] = Tail(@)],
         UNCHANGED <<queue, exit_status, child>>,
         req' = [req EXCEPT ![Head(deque_waiters[p])].stage = "answer"]
  PROVE  /\ Waiters(p)'
         /\ \A r \in Req : req'[r] = req[r] \/ (req[r].stage = "deque" /\ req[r].proc = p
                                                  /\ req'[r].stage = "answer")
<1> DEFINE q == deque_waiters[p]
           h == Head(q)
           w == Tail(q)
<1>1. q \in Seq(Req)
  BY DEF LifeInv, Types
<1>2. deque_waiters'[p] = w
  BY DEF LifeInv, Types
<1>3. /\ h = q[1] /\ 1 \in 1..Len(q) /\ h \in Req
      /\ Len(w) = Len(q) - 1 /\ Len(q) \in Nat
      /\ \A i \in 1..Len(w) : w[i] = q[i + 1] /\ i + 1 \in 1..Len(q) /\ i + 1 # 1
  BY <1>1, HeadTailProperties, LenProperties
<1>4. \A i \in 1..Len(q) : q[i] \in Req
  BY <1>1, ElementOfSeq
<1>5. req[h] \in Request /\ req[h].stage = "deque" /\ req[h].proc = p
  <2>1. \A i \in 1..Len(q) : req[q[i]].stage = "deque" /\ req[q[i]].proc = p
    BY DEF Waiters
  <2>2. h \in Req /\ h = q[1] /\ 1 \in 1..Len(q)
    BY <1>3
  <2> HIDE DEF h, q, w
  <2> QED
    BY <2>1, <2>2 DEF LifeInv, Types
<1>6. /\ req'[h].stage = "answer"
      /\ \A s \in Req : s # h => req'[s] = req[s]
  <2>1. req' = [req EXCEPT ![h] = [req[h] EXCEPT !.stage = "answer"]]
    OBVIOUS
  <2> HIDE DEF h
  <2>2. req'[h] = [req[h] EXCEPT !.stage = "answer"]
    BY <1>3, <2>1 DEF LifeInv, Types
  <2> QED
    BY <1>3, <1>5, <2>1, <2>2, StageOnly DEF LifeInv, Types
<1>7. \A i \in 1..Len(w) : w[i] \in Req /\ w[i] # h
  <2>1. \A i, j \in 1..Len(q) : q[i] = q[j] => i = j
    BY DEF Waiters
  <2> HIDE DEF h, q, w
  <2> QED
    BY <1>3, <1>4, <2>1
<1>8. \A i \in 1..Len(w) : req'[w[i]].stage = "deque" /\ req'[w[i]].proc = p
  BY <1>3, <1>6, <1>7 DEF Waiters
<1>9. \A s \in Req : req'[s].stage = "deque" /\ req'[s].proc = p =>
        \E i \in 1..Len(w) : w[i] = s
  <2> SUFFICES ASSUME NEW s \in Req, req'[s].stage = "deque", req'[s].proc = p
               PROVE  \E i \in 1..Len(w) : w[i] = s
    OBVIOUS
  <2>1. s # h /\ req'[s] = req[s]
    BY <1>6
  <2>2. PICK i \in 1..Len(q) : q[i] = s
    BY <2>1 DEF Waiters
  <2>3. i # 1
    BY <1>3, <2>1, <2>2
  <2>4. i - 1 \in 1..Len(w) /\ (i - 1) + 1 = i
    BY <1>3, <2>2, <2>3
  <2>5. w[i - 1] = q[i]
    BY <1>3, <2>4
  <2> QED
    BY <2>2, <2>4, <2>5
<1>10. \A i, j \in 1..Len(w) : w[i] = w[j] => i = j
  <2> SUFFICES ASSUME NEW i \in 1..Len(w), NEW j \in 1..Len(w), w[i] = w[j]
               PROVE  i = j
    OBVIOUS
  <2>1. i + 1 = j + 1
    BY <1>3 DEF Waiters
  <2> QED
    BY <1>3, <2>1
<1>11. (queue[p] = <<>> /\ ~exit_status[p] /\ child[p] # "none")'
  BY DEF Waiters
<1> HIDE DEF w, q, h
<1>12. Waiters(p)'
  <2> DEFINE v == deque_waiters'[p]
  <2>1. v = w
    BY <1>2
  <2> HIDE DEF v
  <2>2. \A i \in 1..Len(v) : req'[v[i]].stage = "deque" /\ req'[v[i]].proc = p
    BY <1>8, <2>1
  <2>3. \A s \in Req : req'[s].stage = "deque" /\ req'[s].proc = p =>
          \E i \in 1..Len(v) : v[i] = s
    BY <1>9, <2>1
  <2>4. \A i, j \in 1..Len(v) : v[i] = v[j] => i = j
    BY <1>10, <2>1
  <2> USE DEF v
  <2> QED
    BY <1>11, <2>2, <2>3, <2>4 DEF Waiters
<1>13. \A r \in Req : req'[r] = req[r] \/ (req[r].stage = "deque" /\ req[r].proc = p
                                             /\ req'[r].stage = "answer")
  BY <1>5, <1>6
<1> QED
  BY <1>12, <1>13

LEMMA WaitStep ==
  ASSUME WaitInv, [Next]_vars, NEW p \in Child
  PROVE  Waiters(p)'
<1> USE DEF WaitInv
<1>1. \A r \in Req : req[r] \in Request
  BY DEF LifeInv, Types
<1>2. ASSUME UNCHANGED <<queue, deque_waiters, exit_status>>,
             child[p] # "none" => child'[p] # "none",
             \A r \in Req : req[r].stage = "deque" \/ req'[r].stage = "deque"
                              => req'[r] = req[r]
      PROVE  Waiters(p)'
  BY <1>2, WaitersKept
<1>3. ASSUME NEW id \in TaskId, NEW q \in Child, TaskStart(id, q) \/ TaskStartFails(id, q)
      PROVE  Waiters(p)'
  <2>1. UNCHANGED <<queue, deque_waiters, exit_status, req>>
    BY <1>3 DEF TaskStart, TaskStartFails, streamVars
  <2>2. child' = [child EXCEPT ![q] = "running"] \/ child' = child
    BY <1>3 DEF TaskStart, TaskStartFails, childVars
  <2>3. child[p] # "none" => child'[p] # "none"
    BY <2>2 DEF LifeInv, Types
  <2> QED
    BY <1>2, <2>1, <2>3
<1>4. ASSUME NEW r \in Req, NEW id \in TaskId, TaskProgress(r, id)
      PROVE  Waiters(p)'
  <2> DEFINE q == m[id]
  <2>1. /\ req[r].stage = "free" /\ q \in Child /\ child[q] # "none"
        /\ UNCHANGED <<child, exit_status>>
    BY <1>4 DEF TaskProgress, Arrives, childVars, LifeInv, Types, InUse
  <2>2. CASE /\ Handle(r, "progress", id, "answer") /\ UNCHANGED deque_waiters
             /\ \/ UNCHANGED queue
                \/ queue[q] # <<>> /\ queue' = [queue EXCEPT ![q] = Tail(@)]
    <3>1. /\ req'[r].stage = "answer"
          /\ \A s \in Req : s # r => req'[s] = req[s]
      BY <2>2, HandleProgress DEF LifeInv
    <3>2. CASE queue'[p] = queue[p]
      BY <2>1, <2>2, <3>1, <3>2, WaitersKept
    <3>3. CASE p = q /\ queue[q] # <<>> /\ queue' = [queue EXCEPT ![q] = Tail(@)]
      <4>1. deque_waiters[p] = <<>> /\ deque_waiters'[p] = <<>>
        BY <2>2, <3>3 DEF Waiters
      <4>2. \A s \in Req : ~(req[s].stage = "deque" /\ req[s].proc = p)
        BY <4>1 DEF Waiters
      <4>3. \A s \in Req : ~(req'[s].stage = "deque" /\ req'[s].proc = p)
        BY <3>1, <4>2
      <4> QED
        BY <4>1, <4>3 DEF Waiters
    <3>4. CASE p # q /\ queue' = [queue EXCEPT ![q] = Tail(@)]
      BY <2>1, <3>2, <3>4 DEF LifeInv, Types
    <3> QED
      BY <2>2, <3>2, <3>3, <3>4
  <2>3. CASE /\ ~exit_status[q] /\ queue[q] = <<>> /\ UNCHANGED queue
             /\ deque_waiters' = [deque_waiters EXCEPT ![q] = Append(@, r)]
             /\ Handle(r, "progress", id, "deque")
    <3>1. /\ req'[r].stage = "deque" /\ req'[r].proc = q
          /\ \A s \in Req : s # r => req'[s] = req[s]
      BY <2>3, HandleProgress DEF LifeInv
    <3>2. CASE p = q
      BY <2>1, <2>3, <3>1, <3>2, OneWaits
    <3>3. CASE p # q
      <4>1. deque_waiters'[p] = deque_waiters[p]
        BY <2>1, <2>3, <3>3 DEF LifeInv, Types
      <4>2. \A s \in Req : (req[s].stage = "deque" /\ req[s].proc = p)
                             \/ (req'[s].stage = "deque" /\ req'[s].proc = p)
                             => req'[s] = req[s]
        BY <2>1, <3>1, <3>3
      <4> QED
        BY <2>1, <2>3, <4>1, <4>2, WaitersKept
    <3> QED
      BY <3>2, <3>3
  <2> QED
    BY <1>4, <2>2, <2>3 DEF TaskProgress
<1>5. ASSUME NEW r \in Req, NEW id \in TaskId, TaskCancel(r, id)
      PROVE  Waiters(p)'
  <2>1. PICK stage \in AtExit : Handle(r, "cancel", id, stage)
    BY <1>5 DEF TaskCancel, WaitForExit, AtExit
  <2>2. /\ m[id] # Null /\ req[r].stage = "free"
        /\ UNCHANGED <<queue, deque_waiters, exit_status, child>>
    BY <1>5 DEF TaskCancel, Arrives, childVars, streamVars
  <2>3. req'[r].stage = stage /\ \A s \in Req : s # r => req'[s] = req[s]
    BY <2>1, <2>2, HandleCancel DEF LifeInv, AtExit
  <2> QED
    BY <1>2, <2>2, <2>3 DEF AtExit
<1>6. ASSUME NEW q \in Child, NEW st \in Stream, ReadOutput(q, st)
      PROVE  Waiters(p)'
  <2> DEFINE e == [kind |-> st, n |-> consumed[q][st] + 1]
  <2>1. UNCHANGED <<exit_status, child>> /\ Enque(q, e)
    BY <1>6 DEF ReadOutput, childVars
  <2> HIDE DEF e
  <2>2. CASE /\ deque_waiters[q] = <<>> /\ queue' = [queue EXCEPT ![q] = Append(@, e)]
             /\ UNCHANGED <<deque_waiters, req>>
    <3>1. CASE p # q
      <4>1. queue'[p] = queue[p]
        BY <2>2, <3>1 DEF LifeInv, Types
      <4> QED
        BY <2>1, <2>2, <4>1, WaitersKept
    <3>2. CASE p = q
      BY <2>1, <2>2, <3>2 DEF Waiters
    <3> QED
      BY <3>1, <3>2
  <2>3. CASE /\ deque_waiters[q] # <<>>
             /\ deque_waiters' = [deque_waiters EXCEPT ![q] = Tail(@)]
             /\ req' = [req EXCEPT ![Head(deque_waiters[q])].stage = "answer"]
             /\ UNCHANGED queue
    <3>1. /\ Waiters(q)'
          /\ \A r \in Req : req'[r] = req[r] \/ (req[r].stage = "deque" /\ req[r].proc = q
                                                   /\ req'[r].stage = "answer")
      BY <2>1, <2>3, FirstAnswered
    <3>2. CASE p # q
      <4>1. deque_waiters'[p] = deque_waiters[p]
        BY <2>3, <3>2 DEF LifeInv, Types
      <4> QED
        BY <2>1, <2>3, <3>1, <3>2, <4>1, WaitersKept
    <3> QED
      BY <3>1, <3>2
  <2> QED
    BY <2>1, <2>2, <2>3 DEF Enque
<1>7. ASSUME NEW q \in Child, OnExit(q)
      PROVE  Waiters(p)'
  <2>1. /\ child[q] = "exited" /\ child' = [child EXCEPT ![q] = "reaped"]
        /\ exit_status' = [exit_status EXCEPT ![q] = TRUE]
        /\ \A r \in Req : req'[r] = AfterExit(q, r)
        /\ deque_waiters' = [deque_waiters EXCEPT ![q] = <<>>]
        /\ queue' = [queue EXCEPT ![q] = Append(@, Exit)] \/ queue' = queue
    BY <1>7 DEF OnExit
  <2>2. ASSUME NEW r \in Req
        PROVE  \/ req'[r] = req[r] /\ ~(req[r].stage = "deque" /\ req[r].proc = q)
               \/ req[r].stage = "exit" /\ req'[r].stage = "woken"
               \/ /\ req[r].stage = "deque" /\ req[r].proc = q
                  /\ req'[r].stage = "answer"
    <3>1. req[r] \in Request
      BY <1>1
    <3>2. CASE req[r].proc = q /\ req[r].stage = "exit"
      <4>1. req'[r] = [req[r] EXCEPT !.stage = "woken"]
        BY <2>1, <3>2 DEF AfterExit
      <4> QED
        BY <3>1, <3>2, <4>1, StageOnly
    <3>3. CASE req[r].proc = q /\ req[r].stage = "deque"
      <4>1. req'[r] = [req[r] EXCEPT !.stage = "answer"]
        BY <2>1, <3>3 DEF AfterExit
      <4> QED
        BY <3>1, <3>3, <4>1, StageOnly
    <3>4. CASE /\ ~(req[r].proc = q /\ req[r].stage = "exit")
               /\ ~(req[r].proc = q /\ req[r].stage = "deque")
      BY <2>1, <3>4 DEF AfterExit
    <3> QED
      BY <3>2, <3>3, <3>4
  <2>3. CASE p = q
    <3>1. deque_waiters'[p] = <<>>
      BY <2>1, <2>3 DEF LifeInv, Types
    <3>2. \A r \in Req : ~(req'[r].stage = "deque" /\ req'[r].proc = p)
      BY <2>2, <2>3
    <3> QED
      BY <3>1, <3>2 DEF Waiters
  <2>4. CASE p # q
    <3>1. /\ queue'[p] = queue[p] /\ deque_waiters'[p] = deque_waiters[p]
          /\ exit_status'[p] = exit_status[p] /\ child'[p] = child[p]
      BY <2>1, <2>4 DEF LifeInv, Types
    <3>2. \A r \in Req : (req[r].stage = "deque" /\ req[r].proc = p)
                           \/ (req'[r].stage = "deque" /\ req'[r].proc = p)
                           => req'[r] = req[r]
      BY <2>2, <2>4
    <3> QED
      BY <3>1, <3>2, WaitersKept
  <2> QED
    BY <2>3, <2>4
<1>8. ASSUME NEW r \in Req, Resume(r)
      PROVE  Waiters(p)'
  <2>1. UNCHANGED <<queue, deque_waiters, exit_status, child>>
    BY <1>8 DEF Resume, Answer, CancelWoken, CancelErase, childVars, streamVars
  <2>2. /\ req[r].stage # "deque" /\ req'[r].stage # "deque"
        /\ \A s \in Req : s # r => req'[s] = req[s]
    <3>1. CASE Answer(r)
      BY <3>1 DEF Answer, Free, LifeInv, Types
    <3>2. CASE CancelWoken(r)
      <4>1. req' = [req EXCEPT ![r] = [req[r] EXCEPT !.stage = "erase"]]
        BY <3>2 DEF CancelWoken
      <4> QED
        BY <1>1, <3>2, <4>1, StageOnly DEF CancelWoken, LifeInv, Types
    <3>3. CASE CancelErase(r)
      <4>1. req' = [req EXCEPT ![r] = [req[r] EXCEPT !.stage = "answer"]]
        BY <3>3 DEF CancelErase
      <4> QED
        BY <1>1, <3>3, <4>1, StageOnly DEF CancelErase, LifeInv, Types
    <3> QED
      BY <1>8, <3>1, <3>2, <3>3 DEF Resume
  <2> QED
    BY <1>2, <2>1, <2>2
<1>9. ASSUME NEW q \in Child, ChildExits(q)
      PROVE  Waiters(p)'
  <2>1. /\ UNCHANGED <<queue, deque_waiters, exit_status, req>>
        /\ child' = [child EXCEPT ![q] = "exited"]
    BY <1>9 DEF ChildExits, streamVars
  <2>2. child[p] # "none" => child'[p] # "none"
    BY <2>1 DEF LifeInv, Types
  <2> QED
    BY <1>2, <2>1, <2>2
<1>10. ASSUME NEW q \in Child, NEW st \in Stream, ChildWrites(q, st) \/ ReadEnd(q, st)
       PROVE  Waiters(p)'
  <2>1. UNCHANGED <<queue, deque_waiters, exit_status, child, req>>
    BY <1>10 DEF ChildWrites, ReadEnd, childVars, streamVars
  <2> QED
    BY <1>2, <2>1
<1>11. CASE Tick \/ DestroyBegin \/ DestroyWoken \/ Shutdown \/ UNCHANGED vars
  <2>1. UNCHANGED <<queue, deque_waiters, exit_status, child, req>>
    BY <1>11 DEF Tick, DestroyBegin, DestroyWoken, Shutdown, vars, childVars, streamVars
  <2> QED
    BY <1>2, <2>1
<1> DEFINE Goal == Waiters(p)'
<1> HIDE DEF Goal
<1>12. Requests => Goal
  BY <1>3, <1>4, <1>5 DEF Requests, Goal
<1>13. ASSUME NEW q \in Child,
              (\E st \in Stream : ChildWrites(q, st)) \/ ChildExits(q) \/ Callback(q)
       PROVE  Goal
  BY <1>6, <1>7, <1>9, <1>10, <1>13 DEF Callback, Goal
<1>14. (\E r \in Req : Resume(r)) => Goal
  BY <1>8 DEF Goal
<1>15. (Tick \/ DestroyBegin \/ DestroyWoken \/ Shutdown \/ UNCHANGED vars) => Goal
  BY <1>11 DEF Goal
<1>16. Goal
  BY <1>12, <1>13, <1>14, <1>15 DEF Next
<1> QED
  BY <1>16 DEF Goal

\* Nobody waits in vain in the queue of a proc, nor in that of a proc that is
\* freed (process.hpp:300-305, async_queue.hpp:35-56).
THEOREM NobodyWaitsInVain == Spec => []NoIdleWaiter
<1>1. WaitInv /\ [Next]_vars => WaitInv'
  BY WaitStep, LifeStep DEF WaitInv
<1>2. WaitInv => NoIdleWaiter
  <2> SUFFICES ASSUME WaitInv, NEW p \in Child
               PROVE  /\ deque_waiters[p] # <<>> => mem[p] = "allocated"
                      /\ Waiters(p)
    BY DEF NoIdleWaiter, Waiters
  <2>1. Waiters(p)
    BY DEF WaitInv
  <2>2. ASSUME deque_waiters[p] # <<>> PROVE mem[p] = "allocated"
    <3>1. child[p] # "none" /\ ~exit_status[p]
      BY <2>1, <2>2 DEF Waiters
    <3>2. ~Gone(p)
      BY <3>1 DEF WaitInv, LifeInv, Tracked, Gone
    <3> QED
      BY <3>1, <3>2 DEF WaitInv, LifeInv, Types, Tracked
  <2> QED
    BY <2>1, <2>2
<1> QED
  BY <1>1, <1>2, WaitInit, PTL DEF Spec

-----------------------------------------------------------------------------
\* What is in the queues.
Counts ==
    /\ output \in [Child -> [Stream -> Nat]]
    /\ consumed \in [Child -> [Stream -> Nat]]
    /\ handed \in [Child -> [Stream -> Nat]]
    /\ \A p \in Child, st \in Stream :
         handed[p][st] <= consumed[p][st] /\ consumed[p][st] <= output[p][st]
           /\ output[p][st] <= MaxOutput

InOrder(p, st) ==
    /\ {queue[p][i].n : i \in PlacesOf(p, st)} = (handed[p][st] + 1)..consumed[p][st]
    /\ \A i, j \in PlacesOf(p, st) : i < j => queue[p][i].n < queue[p][j].n

OutInv ==
    /\ WaitInv
    /\ Counts
    /\ queue \in [Child -> Seq(Event)]
    /\ \A p \in Child, st \in Stream : InOrder(p, st)

LEMMA OutInit == Init => OutInv
<1> SUFFICES ASSUME Init PROVE OutInv
  OBVIOUS
<1>1. Counts /\ queue \in [Child -> Seq(Event)]
  BY MaxOutputAssumption DEF Init, Zeros, Counts
<1>2. ASSUME NEW p \in Child, NEW st \in Stream PROVE InOrder(p, st)
  <2>1. PlacesOf(p, st) = {} /\ handed[p][st] = 0 /\ consumed[p][st] = 0
    BY DEF Init, Zeros, PlacesOf
  <2> QED
    BY <2>1 DEF InOrder
<1> QED
  BY <1>1, <1>2, WaitInit DEF OutInv

LEMMA EventTypes ==
  /\ Exit \in Event /\ Exit.kind = "exit"
  /\ \A st \in Stream : \A n \in 1..MaxOutput : [kind |-> st, n |-> n] \in Event
  /\ "exit" \notin Stream
  /\ \A e \in Event : /\ e.kind \in Stream => e.n \in 1..MaxOutput
                      /\ e.kind \in Stream \cup {"exit"}
BY StreamAssumption DEF Exit, Event

LEMMA InOrderKept ==
  ASSUME NEW p \in Child, NEW st \in Stream, InOrder(p, st),
         queue'[p] = queue[p], handed'[p][st] = handed[p][st],
         consumed'[p][st] = consumed[p][st]
  PROVE  InOrder(p, st)'
BY DEF InOrder, PlacesOf

\* One more event at the end.
LEMMA InOrderAppend ==
  ASSUME OutInv, NEW p \in Child, NEW st \in Stream, NEW e \in Event,
         queue'[p] = Append(queue[p], e), handed'[p][st] = handed[p][st],
         \/ e.kind # st /\ consumed'[p][st] = consumed[p][st]
         \/ e.kind = st /\ e.n = consumed[p][st] + 1
              /\ consumed'[p][st] = consumed[p][st] + 1
  PROVE  InOrder(p, st)'
<1> DEFINE q == queue[p]
           w == queue'[p]
           h == handed[p][st]
           c == consumed[p][st]
           P == PlacesOf(p, st)
           n == Len(q) + 1
<1>1. q \in Seq(Event) /\ h \in Nat /\ c \in Nat /\ h <= c
  BY DEF OutInv, Counts
<1>2. /\ Len(w) = n /\ n \in Nat /\ Len(q) \in Nat /\ w[n] = e
      /\ \A i \in 1..Len(q) : w[i] = q[i]
  BY <1>1, AppendProperties, LenProperties
<1>3. /\ P = {i \in 1..Len(q) : q[i].kind = st}
      /\ {q[i].n : i \in P} = (h + 1)..c
      /\ \A i, j \in P : i < j => q[i].n < q[j].n
  BY DEF InOrder, OutInv, PlacesOf
<1> DEFINE R == {i \in 1..Len(w) : w[i].kind = st}
<1>4. R = P \cup (IF e.kind = st THEN {n} ELSE {})
  <2> HIDE DEF q, w
  <2> QED
    BY <1>2, <1>3
<1>5. \A i \in P : i \in 1..Len(q) /\ w[i] = q[i] /\ i < n
  <2> HIDE DEF q, w
  <2> QED
    BY <1>2, <1>3
<1> HIDE DEF q, w, P, R, n, h, c
<1>6. CASE e.kind # st /\ consumed'[p][st] = c
  <2>1. R = P
    BY <1>4, <1>6
  <2>2. {w[i].n : i \in R} = (h + 1)..c
    BY <1>3, <1>5, <2>1
  <2>3. \A i, j \in R : i < j => w[i].n < w[j].n
    BY <1>3, <1>5, <2>1
  <2> QED
    BY <1>6, <2>2, <2>3 DEF InOrder, PlacesOf, R, w, h
<1>7. CASE e.kind = st /\ e.n = c + 1 /\ consumed'[p][st] = c + 1
  <2>1. R = P \cup {n}
    BY <1>4, <1>7
  <2>2. \A i \in P : w[i].n \in (h + 1)..c
    BY <1>3, <1>5
  <2>3. {w[i].n : i \in R} = {w[i].n : i \in P} \cup {c + 1}
    BY <1>2, <1>7, <2>1
  <2>4. {w[i].n : i \in P} = (h + 1)..c
    BY <1>3, <1>5
  <2>5. (h + 1)..(c + 1) = ((h + 1)..c) \cup {c + 1}
    BY <1>1
  <2>6. {w[i].n : i \in R} = (h + 1)..(c + 1)
    BY <2>3, <2>4, <2>5
  <2>7. \A i, j \in R : i < j => w[i].n < w[j].n
    <3> SUFFICES ASSUME NEW i \in R, NEW j \in R, i < j
                 PROVE  w[i].n < w[j].n
      OBVIOUS
    <3>1. i \in P
      BY <1>2, <1>5, <2>1
    <3>2. CASE j \in P
      BY <1>3, <1>5, <3>1, <3>2
    <3>3. CASE j = n
      BY <1>1, <1>2, <1>7, <2>2, <3>1, <3>3
    <3> QED
      BY <2>1, <3>2, <3>3
  <2> QED
    BY <1>7, <2>6, <2>7 DEF InOrder, PlacesOf, R, w, h
<1> QED
  BY <1>6, <1>7 DEF c

\* The first event goes.
LEMMA InOrderTail ==
  ASSUME OutInv, NEW p \in Child, NEW st \in Stream, queue[p] # <<>>,
         queue'[p] = Tail(queue[p]), consumed'[p][st] = consumed[p][st],
         handed'[p][st] = IF Head(queue[p]).kind = st THEN handed[p][st] + 1
                          ELSE handed[p][st]
  PROVE  InOrder(p, st)' /\ handed'[p][st] <= consumed[p][st]
<1> DEFINE q == queue[p]
           w == queue'[p]
           h == handed[p][st]
           c == consumed[p][st]
           P == PlacesOf(p, st)
           R == {i \in 1..Len(w) : w[i].kind = st}
<1>1. q \in Seq(Event) /\ h \in Nat /\ c \in Nat /\ h <= c
  BY DEF OutInv, Counts
<1>2. /\ Len(q) \in Nat /\ 1 \in 1..Len(q) /\ Head(q) = q[1]
      /\ Len(w) = Len(q) - 1
      /\ \A i \in 1..Len(w) : w[i] = q[i + 1]
  BY <1>1, HeadTailProperties, LenProperties
<1>3. /\ P = {i \in 1..Len(q) : q[i].kind = st}
      /\ {q[i].n : i \in P} = (h + 1)..c
      /\ \A i, j \in P : i < j => q[i].n < q[j].n
  BY DEF InOrder, OutInv, PlacesOf
<1>4. handed'[p][st] = IF q[1].kind = st THEN h + 1 ELSE h
  BY <1>2
<1> HIDE DEF q, w, h, c, P
<1>5. \A i \in P : i \in Nat /\ i >= 1 /\ q[i].n \in Nat
  <2> SUFFICES ASSUME NEW i \in P PROVE i \in Nat /\ i >= 1 /\ q[i].n \in Nat
    OBVIOUS
  <2>1. i \in 1..Len(q)
    BY <1>3
  <2>2. q[i].n \in (h + 1)..c
    BY <1>3
  <2> QED
    BY <1>1, <1>2, <2>1, <2>2
<1>6. \A i \in R : i \in Nat /\ i + 1 \in P /\ i + 1 # 1 /\ w[i] = q[i + 1]
  BY <1>2, <1>3
<1>7. \A j \in P \ {1} : j - 1 \in R /\ w[j - 1] = q[j]
  <2> SUFFICES ASSUME NEW j \in P, j # 1 PROVE j - 1 \in R /\ w[j - 1] = q[j]
    OBVIOUS
  <2>1. j \in 1..Len(q) /\ q[j].kind = st
    BY <1>3
  <2>2. j - 1 \in 1..Len(w) /\ (j - 1) + 1 = j
    BY <1>2, <2>1
  <2>3. w[j - 1] = q[j]
    BY <1>2, <2>2
  <2> QED
    BY <2>1, <2>2, <2>3
<1> HIDE DEF R
<1>8. {w[i].n : i \in R} = {q[j].n : j \in P \ {1}}
  BY <1>6, <1>7
<1>9. \A i, j \in R : i < j => w[i].n < w[j].n
  <2> SUFFICES ASSUME NEW i \in R, NEW j \in R, i < j
               PROVE  w[i].n < w[j].n
    OBVIOUS
  <2>1. i + 1 \in P /\ j + 1 \in P /\ i + 1 < j + 1
    BY <1>6
  <2> QED
    BY <1>3, <1>6, <2>1
<1>10. CASE q[1].kind # st
  <2>1. P \ {1} = P
    BY <1>3, <1>10
  <2>2. {w[i].n : i \in R} = (h + 1)..c
    BY <1>3, <1>8, <2>1
  <2> QED
    BY <1>1, <1>4, <1>9, <1>10, <2>2 DEF InOrder, PlacesOf, R, w, h, c
<1>11. CASE q[1].kind = st
  <2>1. 1 \in P
    BY <1>2, <1>3, <1>11
  <2>2. q[1].n \in (h + 1)..c
    BY <1>3, <2>1
  <2>3. h + 1 <= c
    BY <1>1, <2>2
  <2>4. q[1].n = h + 1
    <3> h + 1 \in (h + 1)..c
      BY <1>1, <2>3
    <3> h + 1 \in {q[i].n : i \in P}
      BY <1>3
    <3>1. PICK j \in P : q[j].n = h + 1
      OBVIOUS
    <3>2. j = 1 \/ 1 < j
      BY <1>5
    <3>3. 1 < j => q[1].n < q[j].n
      BY <1>3, <2>1
    <3> QED
      BY <1>1, <2>2, <3>1, <3>2, <3>3
  <2>5. \A j \in P \ {1} : q[j].n # h + 1
    <3> SUFFICES ASSUME NEW j \in P, j # 1 PROVE q[1].n < q[j].n
      BY <1>1, <1>5, <2>4
    <3>1. 1 < j
      BY <1>5
    <3> QED
      BY <1>3, <2>1, <3>1
  <2>6. {q[j].n : j \in P \ {1}} = ((h + 1)..c) \ {h + 1}
    BY <1>3, <2>4, <2>5
  <2>7. ((h + 1)..c) \ {h + 1} = ((h + 1) + 1)..c
    BY <1>1
  <2>8. {w[i].n : i \in R} = ((h + 1) + 1)..c
    BY <1>8, <2>6, <2>7
  <2>9. handed'[p][st] = h + 1
    BY <1>4, <1>11
  <2> QED
    BY <1>9, <2>3, <2>8, <2>9 DEF InOrder, PlacesOf, R, w, c
<1> QED
  BY <1>10, <1>11 DEF c

\* An event goes past an empty queue.
LEMMA InOrderEmpty ==
  ASSUME OutInv, NEW p \in Child, NEW st \in Stream, queue[p] = <<>>
  PROVE  /\ handed[p][st] = consumed[p][st]
         /\ queue'[p] = <<>> /\ handed'[p][st] = consumed'[p][st]
              /\ consumed'[p][st] \in Nat => InOrder(p, st)'
<1>1. handed[p][st] \in Nat /\ consumed[p][st] \in Nat /\ handed[p][st] <= consumed[p][st]
  BY DEF OutInv, Counts
<1>2. PlacesOf(p, st) = {}
  BY DEF PlacesOf
<1>3. (handed[p][st] + 1)..consumed[p][st] = {}
  BY <1>2 DEF OutInv, InOrder
<1>4. handed[p][st] = consumed[p][st]
  BY <1>1, <1>3
<1>5. ASSUME queue'[p] = <<>>, handed'[p][st] = consumed'[p][st], consumed'[p][st] \in Nat
      PROVE  InOrder(p, st)'
  <2>1. PlacesOf(p, st)' = {}
    BY <1>5 DEF PlacesOf
  <2>2. (handed'[p][st] + 1)..consumed'[p][st] = {}
    BY <1>5
  <2> QED
    BY <2>1, <2>2 DEF InOrder
<1> QED
  BY <1>4, <1>5

Outputs == Counts /\ queue \in [Child -> Seq(Event)] /\ \A p \in Child, st \in Stream : InOrder(p, st)

LEMMA ChildWritesKeepsOutputs ==
  ASSUME OutInv, NEW q \in Child, NEW s \in Stream, ChildWrites(q, s)
  PROVE  Outputs'
<1>1. /\ output[q][s] < MaxOutput
      /\ output' = [output EXCEPT ![q][s] = @ + 1]
      /\ UNCHANGED <<consumed, handed, queue>>
  BY DEF ChildWrites, streamVars
<1>2. \A p \in Child, st \in Stream :
        /\ output[p][st] \in Nat
        /\ output'[p][st] = IF p = q /\ st = s THEN output[p][st] + 1 ELSE output[p][st]
  BY <1>1 DEF OutInv, Counts
<1>3. output' \in [Child -> [Stream -> Nat]]
  BY <1>1 DEF OutInv, Counts
<1>4. Counts'
  BY <1>1, <1>2, <1>3, MaxOutputAssumption, SMTT(30) DEF OutInv, Counts
<1>5. ASSUME NEW p \in Child, NEW st \in Stream PROVE InOrder(p, st)'
  BY <1>1, InOrderKept DEF OutInv
<1> QED
  BY <1>1, <1>4, <1>5 DEF OutInv, Outputs

LEMMA OnExitKeepsOutputs ==
  ASSUME OutInv, NEW q \in Child, OnExit(q)
  PROVE  Outputs'
<1>1. /\ UNCHANGED <<output, consumed, handed>>
      /\ queue' = [queue EXCEPT ![q] = Append(@, Exit)] \/ queue' = queue
  BY DEF OnExit
<1>2. Counts'
  BY <1>1 DEF OutInv, Counts
<1>3. Append(queue[q], Exit) \in Seq(Event)
  BY EventTypes, AppendProperties DEF OutInv
<1>4. queue' \in [Child -> Seq(Event)]
  BY <1>1, <1>3 DEF OutInv
<1>5. ASSUME NEW p \in Child, NEW st \in Stream PROVE InOrder(p, st)'
  <2>1. CASE queue'[p] = queue[p]
    BY <1>1, <2>1, InOrderKept DEF OutInv
  <2>2. CASE p = q /\ queue'[p] = Append(queue[p], Exit)
    <3>1. Exit \in Event /\ Exit.kind # st
      BY EventTypes
    <3> QED
      BY <1>1, <2>2, <3>1, InOrderAppend
  <2> QED
    BY <1>1, <2>1, <2>2 DEF OutInv
<1> QED
  BY <1>2, <1>4, <1>5 DEF Outputs

LEMMA ReadOutputKeepsOutputs ==
  ASSUME OutInv, NEW q \in Child, NEW s \in Stream, ReadOutput(q, s)
  PROVE  Outputs'
<1> DEFINE e == [kind |-> s, n |-> consumed[q][s] + 1]
<1>1. /\ consumed[q][s] < output[q][s]
      /\ consumed' = [consumed EXCEPT ![q][s] = @ + 1]
      /\ Enque(q, e) /\ UNCHANGED output
  BY DEF ReadOutput, childVars
<1>2. \A p \in Child, st \in Stream :
        /\ output[p][st] \in Nat /\ consumed[p][st] \in Nat /\ handed[p][st] \in Nat
        /\ consumed'[p][st] = IF p = q /\ st = s THEN consumed[p][st] + 1 ELSE consumed[p][st]
  BY <1>1 DEF OutInv, Counts
<1>3. consumed' \in [Child -> [Stream -> Nat]]
  BY <1>1 DEF OutInv, Counts
<1>4. consumed[q][s] + 1 \in 1..MaxOutput
  BY <1>1, <1>2, MaxOutputAssumption DEF OutInv, Counts
<1>5. e \in Event /\ e.kind = s /\ e.n = consumed[q][s] + 1 /\ s # "exit"
  BY <1>4, EventTypes
<1> HIDE DEF e
<1>6. CASE queue' = [queue EXCEPT ![q] = Append(@, e)] /\ UNCHANGED handed
  <2>1. Counts'
    <3>1. ASSUME NEW p \in Child, NEW st \in Stream
          PROVE  /\ handed[p][st] <= consumed'[p][st]
                 /\ consumed'[p][st] <= output[p][st] /\ output[p][st] <= MaxOutput
      <4>1. /\ handed[p][st] <= consumed[p][st] /\ consumed[p][st] <= output[p][st]
            /\ output[p][st] <= MaxOutput
        BY DEF OutInv, Counts
      <4>2. CASE p = q /\ st = s
        BY <1>1, <1>2, <4>1, <4>2
      <4>3. CASE ~(p = q /\ st = s)
        BY <1>2, <4>1, <4>3
      <4> QED
        BY <4>2, <4>3
    <3> QED
      BY <1>1, <1>3, <1>6, <3>1 DEF OutInv, Counts
  <2>2. queue' \in [Child -> Seq(Event)]
    <3>1. Append(queue[q], e) \in Seq(Event)
      BY <1>5, AppendProperties DEF OutInv
    <3> QED
      BY <1>6, <3>1 DEF OutInv
  <2>3. ASSUME NEW p \in Child, NEW st \in Stream PROVE InOrder(p, st)'
    <3>1. CASE p # q
      BY <1>2, <1>6, <3>1, InOrderKept DEF OutInv
    <3>2. CASE p = q
      <4>1. queue'[p] = Append(queue[p], e) /\ handed'[p][st] = handed[p][st]
        BY <1>6, <3>2 DEF OutInv
      <4>2. \/ e.kind # st /\ consumed'[p][st] = consumed[p][st]
            \/ e.kind = st /\ e.n = consumed[p][st] + 1
                 /\ consumed'[p][st] = consumed[p][st] + 1
        BY <1>2, <1>5, <3>2
      <4> QED
        BY <1>5, <4>1, <4>2, InOrderAppend
    <3> QED
      BY <3>1, <3>2
  <2> QED
    BY <2>1, <2>2, <2>3 DEF Outputs
<1>7. CASE deque_waiters[q] # <<>> /\ Hand(q, e) /\ UNCHANGED queue
  <2>1. queue[q] = <<>>
    BY <1>7 DEF OutInv, WaitInv, Waiters
  <2>2. handed' = [handed EXCEPT ![q][s] = @ + 1]
    BY <1>5, <1>7 DEF Hand
  <2>3. \A p \in Child, st \in Stream :
          handed'[p][st] = IF p = q /\ st = s THEN handed[p][st] + 1 ELSE handed[p][st]
    BY <2>2 DEF OutInv, Counts
  <2>4. handed' \in [Child -> [Stream -> Nat]]
    BY <2>2 DEF OutInv, Counts
  <2>5. Counts'
    <3>1. ASSUME NEW p \in Child, NEW st \in Stream
          PROVE  /\ handed'[p][st] <= consumed'[p][st]
                 /\ consumed'[p][st] <= output[p][st] /\ output[p][st] <= MaxOutput
      <4>1. /\ handed[p][st] <= consumed[p][st] /\ consumed[p][st] <= output[p][st]
            /\ output[p][st] <= MaxOutput
            /\ handed[p][st] \in Nat /\ consumed[p][st] \in Nat
        BY DEF OutInv, Counts
      <4>2. CASE p = q /\ st = s
        BY <1>1, <1>2, <2>3, <4>1, <4>2
      <4>3. CASE ~(p = q /\ st = s)
        BY <1>2, <2>3, <4>1, <4>3
      <4> QED
        BY <4>2, <4>3
    <3> QED
      BY <1>1, <1>3, <2>4, <3>1 DEF OutInv, Counts
  <2>6. ASSUME NEW p \in Child, NEW st \in Stream PROVE InOrder(p, st)'
    <3>1. CASE p = q
      <4>1. handed[p][st] = consumed[p][st]
        BY <2>1, <3>1, InOrderEmpty
      <4>2. handed'[p][st] = consumed'[p][st] /\ consumed'[p][st] \in Nat
        BY <1>2, <2>3, <4>1
      <4> QED
        BY <1>7, <2>1, <3>1, <4>2, InOrderEmpty
    <3>2. CASE p # q
      BY <1>2, <1>7, <2>3, <3>2, InOrderKept DEF OutInv
    <3> QED
      BY <3>1, <3>2
  <2> QED
    BY <1>7, <2>5, <2>6 DEF OutInv, Outputs
<1> QED
  BY <1>1, <1>6, <1>7 DEF Enque

LEMMA TaskProgressKeepsOutputs ==
  ASSUME OutInv, NEW r \in Req, NEW id \in TaskId, TaskProgress(r, id)
  PROVE  Outputs'
<1> DEFINE q == m[id]
<1>1. q \in Child /\ UNCHANGED <<output, consumed>>
  BY DEF TaskProgress, childVars, OutInv, WaitInv, LifeInv, Types
<1>2. CASE UNCHANGED <<queue, handed>>
  <2>1. Counts'
    BY <1>1, <1>2 DEF OutInv, Counts
  <2>2. ASSUME NEW p \in Child, NEW st \in Stream PROVE InOrder(p, st)'
    BY <1>1, <1>2, InOrderKept DEF OutInv
  <2> QED
    BY <1>2, <2>1, <2>2 DEF OutInv, Outputs
<1>3. CASE /\ queue[q] # <<>> /\ Hand(q, Head(queue[q]))
           /\ queue' = [queue EXCEPT ![q] = Tail(@)]
  <2> DEFINE e == Head(queue[q])
  <2>1. queue[q] \in Seq(Event) /\ e \in Event /\ Tail(queue[q]) \in Seq(Event)
    BY <1>1, <1>3, HeadTailProperties DEF OutInv
  <2>2. \/ e.kind = "exit" /\ handed' = handed
        \/ e.kind \in Stream /\ handed' = [handed EXCEPT ![q][e.kind] = @ + 1]
    BY <1>3, <2>1, EventTypes DEF Hand
  <2> DEFINE k == e.kind
  <2>3. /\ handed' \in [Child -> [Stream -> Nat]]
        /\ \A p \in Child, st \in Stream :
             handed'[p][st] = IF p = q /\ k = st THEN handed[p][st] + 1 ELSE handed[p][st]
    <3> HIDE DEF q
    <3>1. CASE k = "exit" /\ handed' = handed
      BY <3>1, EventTypes DEF OutInv, Counts
    <3>2. CASE k \in Stream /\ handed' = [handed EXCEPT ![q][k] = @ + 1]
      <4> HIDE DEF k
      <4> QED
        BY <1>1, <3>2 DEF OutInv, Counts
    <3> QED
      BY <2>2, <3>1, <3>2
  <2>4. queue' \in [Child -> Seq(Event)] /\ queue'[q] = Tail(queue[q])
        /\ \A p \in Child : p # q => queue'[p] = queue[p]
    BY <1>1, <1>3, <2>1 DEF OutInv
  <2>5. ASSUME NEW p \in Child, NEW st \in Stream
        PROVE  InOrder(p, st)' /\ handed'[p][st] <= consumed[p][st]
    <3>1. CASE p = q
      <4>1. handed'[p][st] = IF Head(queue[p]).kind = st THEN handed[p][st] + 1
                             ELSE handed[p][st]
        BY <2>3, <3>1
      <4> QED
        BY <1>1, <1>3, <2>4, <3>1, <4>1, InOrderTail
    <3>2. CASE p # q
      <4>1. handed'[p][st] = handed[p][st]
        BY <2>3, <3>2
      <4>2. handed[p][st] <= consumed[p][st]
        BY DEF OutInv, Counts
      <4> QED
        BY <1>1, <2>4, <3>2, <4>1, <4>2, InOrderKept DEF OutInv
    <3> QED
      BY <3>1, <3>2
  <2>6. Counts'
    BY <1>1, <2>3, <2>5 DEF OutInv, Counts
  <2> QED
    BY <2>4, <2>5, <2>6 DEF Outputs
<1>4. Exit.kind = "exit"
  BY EventTypes
<1> QED
  BY <1>2, <1>3, <1>4 DEF TaskProgress, Hand

LEMMA OutStep == OutInv /\ [Next]_vars => Outputs'
<1> SUFFICES ASSUME OutInv, [Next]_vars PROVE Outputs'
  OBVIOUS
<1>1. ASSUME UNCHANGED <<output, consumed, handed, queue>>
      PROVE  Outputs'
  <2>1. Counts'
    BY <1>1 DEF OutInv, Counts
  <2>2. ASSUME NEW p \in Child, NEW st \in Stream PROVE InOrder(p, st)'
    BY <1>1, InOrderKept DEF OutInv
  <2> QED
    BY <1>1, <2>1, <2>2 DEF OutInv, Outputs
<1>2. Requests => Outputs'
  <2>1. ASSUME NEW id \in TaskId, NEW p \in Child, TaskStart(id, p) \/ TaskStartFails(id, p)
        PROVE  Outputs'
    BY <1>1, <2>1 DEF TaskStart, TaskStartFails, streamVars, childVars
  <2>2. ASSUME NEW r \in Req, NEW id \in TaskId, TaskCancel(r, id)
        PROVE  Outputs'
    BY <1>1, <2>2 DEF TaskCancel, streamVars, childVars
  <2> QED
    BY <2>1, <2>2, TaskProgressKeepsOutputs DEF Requests
<1>3. ASSUME NEW q \in Child,
             (\E st \in Stream : ChildWrites(q, st)) \/ ChildExits(q) \/ Callback(q)
      PROVE  Outputs'
  <2>1. ASSUME ChildExits(q) PROVE Outputs'
    BY <1>1, <2>1 DEF ChildExits, streamVars
  <2>2. ASSUME NEW st \in Stream, ReadEnd(q, st) PROVE Outputs'
    BY <1>1, <2>2 DEF ReadEnd, streamVars, childVars
  <2> QED
    BY <1>3, <2>1, <2>2, ChildWritesKeepsOutputs, ReadOutputKeepsOutputs, OnExitKeepsOutputs
    DEF Callback
<1>4. ASSUME NEW r \in Req, Resume(r)
      PROVE  Outputs'
  BY <1>1, <1>4 DEF Resume, Answer, CancelWoken, CancelErase, streamVars, childVars
<1>5. Tick \/ DestroyBegin \/ DestroyWoken \/ Shutdown \/ UNCHANGED vars => Outputs'
  BY <1>1 DEF Tick, DestroyBegin, DestroyWoken, Shutdown, vars, streamVars, childVars
<1> QED
  BY <1>2, <1>3, <1>4, <1>5 DEF Next

LEMMA OutAlways == Spec => []OutInv
<1>1. OutInv /\ [Next]_vars => OutInv'
  BY OutStep, WaitStep, LifeStep DEF OutInv, Outputs, WaitInv
<1> QED
  BY <1>1, OutInit, PTL DEF Spec

\* Between the child and the hub no output is lost from the middle, doubled
\* or reordered (async_queue.hpp:35-44, 82-91).
THEOREM OutputStaysInOrder == Spec => []QueueIsContiguous
<1>1. OutInv => QueueIsContiguous
  BY DEF OutInv, InOrder, QueueIsContiguous
<1> QED
  BY <1>1, OutAlways, PTL

-----------------------------------------------------------------------------
\* The reference counts: only the map holds pointers to procs.
Counted ==
    /\ cnt \in [Child -> Nat]
    /\ \A p \in Child : mem[p] = "unused" => cnt[p] = 0
    /\ \A id \in TaskId : m[id] # Null => cnt[m[id]] = 1
    /\ \A i, j \in TaskId : m[i] # Null /\ m[i] = m[j] => i = j

Rest ==
    /\ held \in [{} -> Child \cup {Null}]
    /\ shutdown \in {"no", "waiting", "returned"}
    /\ spinning \in BOOLEAN
    /\ told_exit \in [Child -> BOOLEAN]

TypeInv == OutInv /\ Counted /\ Rest

LEMMA CountedInit == Init => Counted /\ Rest
<1> SUFFICES ASSUME Init PROVE Counted /\ Rest
  OBVIOUS
<1>1. Counted
  BY DEF Init, Procs!Init, Counted
<1>2. held \in [{} -> Child \cup {Null}]
  BY DEF Init, Procs!Init
<1>3. Rest
  BY <1>2 DEF Init, Procs!Init, Rest
<1> QED
  BY <1>1, <1>3

LEMMA CountedStep == OutInv /\ Counted /\ [Next]_vars => Counted'
<1> SUFFICES ASSUME OutInv, Counted, [Next]_vars PROVE Counted'
  OBVIOUS
<1>1. Types /\ InUse
  BY DEF OutInv, WaitInv, LifeInv
<1>2. ASSUME UNCHANGED <<m, cnt, mem>> PROVE Counted'
  BY <1>2 DEF Counted
<1>3. ASSUME NEW id \in TaskId, NEW p \in Child, TaskStart(id, p) \/ TaskStartFails(id, p)
      PROVE  Counted'
  <2>1. CASE TaskStart(id, p)
    <3>1. /\ m[id] = Null /\ mem[p] = "unused" /\ cnt[p] = 0
          /\ m' = [m EXCEPT ![id] = p] /\ mem' = [mem EXCEPT ![p] = "allocated"]
          /\ cnt' = [cnt EXCEPT ![p] = @ + 1]
      BY <2>1 DEF TaskStart, Procs!TryEmplace, Procs!Allocate, Procs!Acquire, Counted
    <3>2. \A i \in TaskId : m[i] # Null => m[i] # p
      BY <1>1, <3>1 DEF InUse
    <3>3. cnt' \in [Child -> Nat] /\ \A o \in Child : cnt'[o] = IF o = p THEN 1 ELSE cnt[o]
      BY <3>1 DEF Counted
    <3> QED
      BY <1>1, <3>1, <3>2, <3>3, NullAssumption DEF Counted, Types
  <2>2. CASE TaskStartFails(id, p)
    <3>1. mem' = [mem EXCEPT ![p] = "allocated"] /\ UNCHANGED <<m, cnt>>
      BY <2>2 DEF TaskStartFails
    <3> QED
      BY <1>1, <3>1 DEF Counted, Types
  <2> QED
    BY <1>3, <2>1, <2>2
<1>4. ASSUME NEW r \in Req, CancelErase(r)
      PROVE  Counted'
  <2> DEFINE id == req[r].id
             p == m[id]
  <2>1. p # Null /\ m' = [m EXCEPT ![id] = Null] /\ Procs!Release(p) /\ UNCHANGED mem
    BY <1>4 DEF CancelErase, Procs!Erase
  <2>2. req[r] \in Canceller
    BY <1>1, <1>4, StageType DEF CancelErase, Types
  <2>3. id \in TaskId /\ p \in Child /\ cnt[p] = 1
    BY <1>1, <2>1, <2>2 DEF Canceller, Types, Counted
  <2>4. cnt' = [cnt EXCEPT ![p] = 0]
    BY <2>1, <2>3 DEF Procs!Release, Counted
  <2> HIDE DEF id, p
  <2>5. \A i \in TaskId : m'[i] = IF i = id THEN Null ELSE m[i]
    BY <1>1, <2>1 DEF Types
  <2>6. \A i \in TaskId : m'[i] # Null => m[i] # p
    BY <2>1, <2>3, <2>5 DEF Counted, p
  <2> QED
    BY <1>1, <2>1, <2>3, <2>4, <2>5, <2>6 DEF Counted, Types
<1>5. CASE Tick
  <2>1. UNCHANGED <<m, cnt>>
        /\ (mem' = mem \/ (to_erase # Null /\ mem' = [mem EXCEPT ![to_erase] = "freed"]))
    BY <1>5 DEF Tick, Procs!Tick, Procs!TickErase
  <2> QED
    BY <1>1, <2>1 DEF Counted, Types
<1>6. CASE Shutdown
  <2>1. /\ m' = [id \in TaskId |-> Null] /\ UNCHANGED mem
        /\ cnt' = [o \in Child |-> IF \E id \in TaskId : m[id] = o THEN cnt[o] - 1 ELSE cnt[o]]
    BY <1>6 DEF Shutdown, Procs!Shutdown
  <2>2. ASSUME NEW o \in Child
        PROVE  /\ cnt'[o] \in Nat
               /\ mem'[o] = "unused" => cnt'[o] = 0
    <3>1. CASE \E id \in TaskId : m[id] = o
      <4>1. PICK id \in TaskId : m[id] = o
        BY <3>1
      <4>2. cnt[o] = 1 /\ mem[o] # "unused"
        BY <1>1, <4>1, NullAssumption DEF Counted, InUse
      <4> QED
        BY <2>1, <3>1, <4>2
    <3>2. CASE ~\E id \in TaskId : m[id] = o
      BY <2>1, <3>2 DEF Counted
    <3> QED
      BY <3>1, <3>2
  <2>3. cnt' = [o \in Child |-> cnt'[o]]
    BY <2>1
  <2>4. cnt' \in [Child -> Nat]
    BY <2>2, <2>3
  <2> QED
    BY <2>1, <2>2, <2>4 DEF Counted
<1>7. Requests => Counted'
  <2>1. ASSUME NEW r \in Req, NEW id \in TaskId, TaskProgress(r, id) \/ TaskCancel(r, id)
        PROVE  Counted'
    BY <1>2, <2>1 DEF TaskProgress, TaskCancel, storageVars
  <2> QED
    BY <1>3, <2>1 DEF Requests
<1>8. ASSUME NEW q \in Child,
             (\E st \in Stream : ChildWrites(q, st)) \/ ChildExits(q) \/ Callback(q)
      PROVE  Counted'
  BY <1>2, <1>8 DEF ChildWrites, ChildExits, Callback, ReadOutput, ReadEnd, OnExit, storageVars
<1>9. ASSUME NEW r \in Req, Resume(r)
      PROVE  Counted'
  BY <1>2, <1>4, <1>9 DEF Resume, Answer, CancelWoken, storageVars
<1>10. DestroyBegin \/ DestroyWoken \/ UNCHANGED vars => Counted'
  BY <1>2 DEF DestroyBegin, DestroyWoken, Procs!DestroyFinish, vars, storageVars
<1> QED
  BY <1>5, <1>6, <1>7, <1>8, <1>9, <1>10 DEF Next

LEMMA RestStep == OutInv /\ Rest /\ [Next]_vars => Rest'
<1> SUFFICES ASSUME OutInv, Rest, [Next]_vars PROVE Rest'
  OBVIOUS
<1>1. ASSUME NEW p \in Child, NEW e, Hand(p, e)
      PROVE  told_exit' \in [Child -> BOOLEAN]
  BY <1>1 DEF Hand, Rest
<1>2. ASSUME UNCHANGED <<held, shutdown, spinning>>, told_exit' \in [Child -> BOOLEAN]
      PROVE  Rest'
  BY <1>2 DEF Rest
<1>3. told_exit \in [Child -> BOOLEAN]
  BY DEF Rest
<1>4. Requests => Rest'
  <2>1. ASSUME NEW id \in TaskId, NEW p \in Child, TaskStart(id, p) \/ TaskStartFails(id, p)
        PROVE  Rest'
    BY <1>2, <1>3, <2>1 DEF TaskStart, TaskStartFails, Procs!TryEmplace, streamVars
  <2>2. ASSUME NEW r \in Req, NEW id \in TaskId, TaskProgress(r, id)
        PROVE  Rest'
    <3>1. m[id] \in Child
      BY <2>2 DEF TaskProgress, OutInv, WaitInv, LifeInv, Types
    <3>2. told_exit' \in [Child -> BOOLEAN]
      BY <1>1, <1>3, <2>2, <3>1 DEF TaskProgress
    <3> QED
      BY <1>2, <2>2, <3>2 DEF TaskProgress, storageVars
  <2>3. ASSUME NEW r \in Req, NEW id \in TaskId, TaskCancel(r, id)
        PROVE  Rest'
    BY <1>2, <1>3, <2>3 DEF TaskCancel, storageVars, streamVars
  <2> QED
    BY <2>1, <2>2, <2>3 DEF Requests
<1>5. ASSUME NEW q \in Child,
             (\E st \in Stream : ChildWrites(q, st)) \/ ChildExits(q) \/ Callback(q)
      PROVE  Rest'
  <2>1. ASSUME NEW st \in Stream, ChildWrites(q, st) \/ ReadEnd(q, st)
        PROVE  Rest'
    BY <1>2, <1>3, <2>1 DEF ChildWrites, ReadEnd, storageVars, streamVars
  <2>2. ASSUME NEW st \in Stream, ReadOutput(q, st)
        PROVE  Rest'
    <3>1. told_exit' \in [Child -> BOOLEAN]
      BY <1>1, <1>3, <2>2 DEF ReadOutput, Enque
    <3> QED
      BY <1>2, <2>2, <3>1 DEF ReadOutput, storageVars
  <2>3. CASE ChildExits(q)
    BY <1>2, <1>3, <2>3 DEF ChildExits, storageVars, streamVars
  <2>4. CASE OnExit(q)
    <3>1. told_exit' \in [Child -> BOOLEAN]
      BY <1>3, <2>4 DEF OnExit
    <3> QED
      BY <1>2, <2>4, <3>1 DEF OnExit, storageVars
  <2> QED
    BY <1>5, <2>1, <2>2, <2>3, <2>4 DEF Callback
<1>6. ASSUME NEW r \in Req, Resume(r)
      PROVE  Rest'
  BY <1>2, <1>3, <1>6 DEF Resume, Answer, CancelWoken, CancelErase, Procs!Erase, storageVars,
     streamVars
<1>7. DestroyBegin \/ DestroyWoken \/ UNCHANGED vars => Rest'
  BY <1>2, <1>3 DEF DestroyBegin, DestroyWoken, Procs!DestroyFinish, vars, storageVars, streamVars
<1>8. Tick \/ Shutdown => Rest'
  BY DEF Tick, Shutdown, Procs!Tick, Procs!TickStart, Procs!TickSignal, Procs!TickRest,
     Procs!Shutdown, streamVars, Rest
<1> QED
  BY <1>4, <1>5, <1>6, <1>7, <1>8 DEF Next

\* Every variable keeps its type.
THEOREM TypeCorrect == Spec => []TypeOK
<1>1. TypeInv /\ [Next]_vars => TypeInv'
  <2>1. OutInv /\ [Next]_vars => OutInv'
    BY OutStep, WaitStep, LifeStep DEF OutInv, Outputs, WaitInv
  <2> QED
    BY <2>1, CountedStep, RestStep DEF TypeInv
<1>2. TypeInv => TypeOK
  <2> SUFFICES ASSUME TypeInv PROVE TypeOK
    OBVIOUS
  <2>1. Types /\ Counted /\ Rest /\ Counts /\ queue \in [Child -> Seq(Event)]
    BY DEF TypeInv, OutInv, WaitInv, LifeInv
  <2>2. Procs!TypeOK
    BY <2>1 DEF Procs!TypeOK, Types, Counted, Rest
  <2>3. ASSUME NEW f, f \in [Child -> [Stream -> Nat]],
               \A p \in Child, st \in Stream : f[p][st] <= MaxOutput
        PROVE  f \in [Child -> [Stream -> 0..MaxOutput]]
    <3>1. ASSUME NEW p \in Child PROVE f[p] \in [Stream -> 0..MaxOutput]
      <4>1. f[p] \in [Stream -> Nat] /\ \A st \in Stream : f[p][st] \in 0..MaxOutput
        BY <2>3, MaxOutputAssumption
      <4> QED
        BY <4>1
    <3> QED
      BY <2>3, <3>1
  <2>4. \A p \in Child, st \in Stream :
          output[p][st] <= MaxOutput /\ consumed[p][st] <= MaxOutput /\ handed[p][st] <= MaxOutput
    <3> SUFFICES ASSUME NEW p \in Child, NEW st \in Stream
                 PROVE  /\ output[p][st] <= MaxOutput /\ consumed[p][st] <= MaxOutput
                        /\ handed[p][st] <= MaxOutput
      OBVIOUS
    <3>1. output[p][st] \in Nat /\ consumed[p][st] \in Nat /\ handed[p][st] \in Nat
      BY <2>1 DEF Counts
    <3> QED
      BY <2>1, <3>1, MaxOutputAssumption DEF Counts
  <2>5. /\ output \in [Child -> [Stream -> 0..MaxOutput]]
        /\ consumed \in [Child -> [Stream -> 0..MaxOutput]]
        /\ handed \in [Child -> [Stream -> 0..MaxOutput]]
    BY <2>1, <2>3, <2>4 DEF Counts
  <2>6. Request \subseteq
          [kind : {"none", "progress", "cancel"}, id : TaskId \cup {Null},
           proc : Child \cup {Null},
           stage : {"free", "deque", "exit", "woken", "erase", "answer"}]
    BY DEF Request, Plain, Canceller
  <2> QED
    BY <2>1, <2>2, <2>5, <2>6 DEF TypeOK, Types, Rest
<1> QED
  BY <1>1, <1>2, OutInit, CountedInit, PTL DEF Spec, TypeInv

-----------------------------------------------------------------------------
(***************************************************************************)
(* The async_map of the procs.  A start that fails makes an entry and      *)
(* erases it in one step, which is none of AsyncStorage's; its invariant   *)
(* holds all the same.                                                     *)
(***************************************************************************)
StorageP == INSTANCE AsyncStorageProofs WITH
    Key <- TaskId, Obj <- Child, Holder <- {}, HeldSource <- TRUE

LEMMA StorageAssumptions ==
  /\ TRUE \in BOOLEAN
  /\ Null \notin Child
  /\ StorageP!IsFiniteSet({}) /\ {} \cap TaskId = {}
  /\ TaskId \subseteq Nat /\ StorageP!IsFiniteSet(TaskId)
<1>1. \A S : IsFiniteSet(S) => StorageP!IsFiniteSet(S)
  BY DEF IsFiniteSet, StorageP!IsFiniteSet
<1> QED
  BY <1>1, TaskIdAssumption, NullAssumption, FS_EmptySet

LEMMA FailedStartKeeps ==
  ASSUME StorageP!AliveInv, NEW id \in TaskId, NEW p \in Child, TaskStartFails(id, p)
  PROVE  StorageP!AliveInv'
<1>1. /\ m[id] = Null /\ mem[p] = "unused" /\ mem' = [mem EXCEPT ![p] = "allocated"]
      /\ to_del' = Append(to_del, p)
      /\ UNCHANGED <<m, held, cnt, destroy_task, to_erase, shutdown, spinning>>
  BY DEF TaskStartFails
<1>2. /\ StorageP!TypeOK /\ StorageP!CountIsExact /\ StorageP!OneEntry
      /\ StorageP!UnusedUncounted
      /\ StorageP!ListInv /\ StorageP!TaskInv /\ StorageP!FreedUncounted
      /\ StorageP!UncountedIsQueued
  BY DEF StorageP!AliveInv, StorageP!CountInv, StorageP!QueueInv
<1>3. /\ mem \in [Child -> {"unused", "allocated", "freed"}] /\ to_del \in Seq(Child)
      /\ destroy_task \in Child \cup {Null}
  BY <1>2 DEF StorageP!TypeOK
<1>4. cnt[p] = 0 /\ p # destroy_task /\ \A i \in 1..Len(to_del) : to_del[i] # p
  BY <1>1, <1>2, NullAssumption
  DEF StorageP!UnusedUncounted, StorageP!TaskInv, StorageP!ListInv
<1>5. /\ mem'[p] = "allocated" /\ \A q \in Child : q # p => mem'[q] = mem[q]
      /\ Len(to_del) \in Nat
      /\ Len(to_del') = Len(to_del) + 1 /\ to_del'[Len(to_del) + 1] = p
      /\ \A i \in 1..Len(to_del) : to_del'[i] = to_del[i] /\ to_del[i] \in Child
  BY <1>1, <1>3
<1>6. StorageP!TypeOK'
  BY <1>1, <1>2 DEF StorageP!TypeOK
<1>7. StorageP!CountIsExact'
  BY <1>1, <1>2 DEF StorageP!CountIsExact, StorageP!Refs
<1>8. StorageP!OneEntry' /\ StorageP!UnusedUncounted' /\ StorageP!FreedUncounted'
  BY <1>1, <1>2, <1>4, <1>5
  DEF StorageP!OneEntry, StorageP!UnusedUncounted, StorageP!FreedUncounted, StorageP!TypeOK
<1>9. StorageP!TaskInv'
  BY <1>1, <1>2, <1>3, <1>4, <1>5 DEF StorageP!TaskInv
<1>10. StorageP!ListInv'
  <2>1. ASSUME NEW i \in 1..Len(to_del')
        PROVE  cnt'[to_del'[i]] = 0 /\ mem'[to_del'[i]] = "allocated"
               /\ to_del'[i] # destroy_task'
    <3>1. CASE i = Len(to_del) + 1
      BY <1>1, <1>4, <1>5, <3>1
    <3>2. CASE i # Len(to_del) + 1
      <4>1. i \in 1..Len(to_del)
        BY <1>5, <3>2
      <4> QED
        BY <1>1, <1>2, <1>4, <1>5, <4>1 DEF StorageP!ListInv
    <3> QED
      BY <3>1, <3>2
  <2>2. ASSUME NEW i \in 1..Len(to_del'), NEW j \in 1..Len(to_del'), to_del'[i] = to_del'[j]
        PROVE  i = j
    BY <1>2, <1>4, <1>5, <2>2 DEF StorageP!ListInv
  <2> QED
    BY <2>1, <2>2 DEF StorageP!ListInv
<1>11. StorageP!UncountedIsQueued'
  <2> SUFFICES ASSUME NEW q \in Child, mem'[q] = "allocated", cnt'[q] = 0
               PROVE  StorageP!Linked(q)' \/ destroy_task' = q
    BY DEF StorageP!UncountedIsQueued
  <2>1. CASE q = p
    <3>1. Len(to_del) + 1 \in 1..Len(to_del')
      BY <1>5
    <3> QED
      BY <1>5, <2>1, <3>1 DEF StorageP!Linked
  <2>2. CASE q # p
    <3>1. StorageP!Linked(q) \/ destroy_task = q
      BY <1>1, <1>2, <1>5, <2>2 DEF StorageP!UncountedIsQueued
    <3>2. \A i \in 1..Len(to_del) : i \in 1..Len(to_del')
      BY <1>5
    <3> QED
      BY <1>1, <1>5, <3>1, <3>2 DEF StorageP!Linked
  <2> QED
    BY <2>1, <2>2
<1> QED
  BY <1>6, <1>7, <1>8, <1>9, <1>10, <1>11
  DEF StorageP!AliveInv, StorageP!CountInv, StorageP!QueueInv

LEMMA StorageStep == Types /\ StorageP!AliveInv /\ [Next]_vars => StorageP!AliveInv'
<1> SUFFICES ASSUME Types, StorageP!AliveInv, [Next]_vars PROVE StorageP!AliveInv'
  OBVIOUS
<1>1. ASSUME [StorageP!Next]_(StorageP!storageVars) PROVE StorageP!AliveInv'
  BY <1>1, StorageP!AliveStep, StorageAssumptions
<1>2. ASSUME UNCHANGED storageVars PROVE StorageP!AliveInv'
  BY <1>1, <1>2 DEF storageVars, StorageP!storageVars
<1>3. ASSUME NEW id \in TaskId, NEW p \in Child, TaskStart(id, p) PROVE StorageP!AliveInv'
  <2>1. StorageP!TryEmplace(id, p)
    BY <1>3 DEF TaskStart, Procs!TryEmplace, StorageP!TryEmplace, Procs!Allocate,
       StorageP!Allocate, Procs!Acquire, StorageP!Acquire
  <2> QED
    BY <1>1, <2>1 DEF StorageP!Next
<1>4. ASSUME NEW r \in Req, NEW id \in TaskId, TaskProgress(r, id) \/ TaskCancel(r, id)
      PROVE  StorageP!AliveInv'
  BY <1>2, <1>4 DEF TaskProgress, TaskCancel
<1>5. ASSUME NEW p \in Child, NEW st \in Stream, ChildWrites(p, st) \/ ReadOutput(p, st) \/ ReadEnd(p, st)
      PROVE  StorageP!AliveInv'
  BY <1>2, <1>5 DEF ChildWrites, ReadOutput, ReadEnd
<1>6. ASSUME NEW p \in Child, ChildExits(p) \/ OnExit(p) PROVE StorageP!AliveInv'
  BY <1>2, <1>6 DEF ChildExits, OnExit
<1>7. ASSUME NEW r \in Req, Answer(r) \/ CancelWoken(r) PROVE StorageP!AliveInv'
  BY <1>2, <1>7 DEF Answer, CancelWoken
<1>8. ASSUME NEW r \in Req, CancelErase(r) PROVE StorageP!AliveInv'
  <2>1. Procs!Erase(req[r].id)
    BY <1>8 DEF CancelErase
  <2>2. StorageP!Erase(req[r].id)
    BY <2>1 DEF Procs!Erase, StorageP!Erase, Procs!Release, StorageP!Release
  <2>3. req[r] \in Request /\ req[r].stage = "erase"
    BY <1>8 DEF CancelErase, Types
  <2>4. req[r].id \in TaskId
    BY <2>3 DEF Request, Plain, Canceller
  <2> QED
    BY <1>1, <2>2, <2>4 DEF StorageP!Next
<1>9. CASE Tick
  <2>1. StorageP!Tick
    BY <1>9 DEF Tick, Procs!Tick, StorageP!Tick, Procs!TickErase, StorageP!TickErase,
       Procs!TickStart, StorageP!TickStart, Procs!TickSignal, StorageP!TickSignal,
       Procs!TickRest, StorageP!TickRest, Procs!TaskAfterErase, StorageP!TaskAfterErase
  <2> QED
    BY <1>1, <2>1 DEF StorageP!Next
<1>10. ASSUME Procs!DestroyFinish PROVE StorageP!AliveInv'
  <2>1. StorageP!DestroyFinish
    BY <1>10 DEF Procs!DestroyFinish, StorageP!DestroyFinish
  <2> QED
    BY <1>1, <2>1 DEF StorageP!Next
<1>11. CASE DestroyBegin \/ DestroyWoken
  BY <1>2, <1>10, <1>11 DEF DestroyBegin, DestroyWoken
<1>12. CASE Shutdown
  <2>1. Procs!LastInMap = StorageP!LastInMap
    BY DEF Procs!LastInMap, StorageP!LastInMap
  <2>2. \A q : Procs!ListsEachOnce(q) <=> StorageP!ListsEachOnce(q)
    BY <2>1 DEF Procs!ListsEachOnce, StorageP!ListsEachOnce
  <2>3. \A S : Procs!Cardinality(S) = StorageP!Cardinality(S)
    BY DEF Procs!Cardinality, StorageP!Cardinality
  <2>4. StorageP!Shutdown
    BY <1>12, <2>1, <2>2, <2>3 DEF Shutdown, Procs!Shutdown, StorageP!Shutdown
  <2> QED
    BY <1>1, <2>4 DEF StorageP!Next
<1>13. CASE UNCHANGED vars
  BY <1>2, <1>13 DEF vars
<1> QED
  BY <1>3, <1>4, <1>5, <1>6, <1>7, <1>8, <1>9, <1>11, <1>12, <1>13, FailedStartKeeps
  DEF Next, Requests, Callback, Resume

\* A proc in the map is allocated and not being destroyed; one that was
\* cancelled, or that failed to start, is in the list of the map once, is being
\* destroyed, or is freed (process.hpp:164-222, 271-295).
THEOREM ProcsAreReclaimed ==
  Spec => [](StorageP!ReferencedIsAlive /\ StorageP!NoneForgotten)
<1>1. Init => StorageP!AliveInv
  <2>1. Init => StorageP!Init
    BY DEF Init, Procs!Init, StorageP!Init
  <2> QED
    BY <2>1, StorageP!AliveInit, StorageAssumptions
<1>2. StorageP!AliveInv => StorageP!ReferencedIsAlive /\ StorageP!NoneForgotten
  BY StorageP!AliveIsSafe, StorageP!AliveForgetsNone, StorageAssumptions
<1>3. LifeInv => Types
  BY DEF LifeInv
<1> QED
  BY <1>1, <1>2, <1>3, StorageStep, LifeAlways, PTL DEF Spec

\* Whatever the hub asks, a child that has not been reaped is tracked and
\* under an id, or waits for or is in the destroy() that kills it: none runs on
\* unknown to the unit (process.hpp:208-220, 323-335).
THEOREM ChildrenAreKept == Spec => []NoOrphans
<1>1. Init => StorageP!AliveInv
  <2>1. Init => StorageP!Init
    BY DEF Init, Procs!Init, StorageP!Init
  <2> QED
    BY <2>1, StorageP!AliveInit, StorageAssumptions
<1>2. LifeInv => Types
  BY DEF LifeInv
<1>3. LifeInv /\ StorageP!AliveInv => NoOrphans
  <2> SUFFICES ASSUME LifeInv, StorageP!AliveInv, NEW p \in Child,
                      child[p] \in {"running", "exited"}
               PROVE  /\ tracked[p]
                      /\ \/ \E id \in TaskId : m[id] = p
                         \/ Procs!Linked(p)
                         \/ destroy_task = p /\ to_erase = Null
    BY DEF NoOrphans
  <2>1. ~Gone(p) /\ child[p] # "none"
    BY DEF Gone
  <2>2. tracked[p] /\ to_erase # p /\ mem[p] = "allocated"
    BY <2>1 DEF LifeInv, Tracked, Types
  <2>3. /\ cnt[p] \in Nat
        /\ StorageP!CountIsExact /\ StorageP!TaskInv /\ StorageP!UncountedIsQueued
    BY DEF StorageP!AliveInv, StorageP!CountInv, StorageP!QueueInv, StorageP!TypeOK
  <2>4. CASE cnt[p] # 0
    <3>1. StorageP!Refs(p) # {}
      BY <2>3, <2>4, StorageP!RefsFinite, StorageAssumptions DEF StorageP!CountIsExact
    <3>2. \E id \in TaskId : m[id] = p
      BY <3>1 DEF StorageP!Refs
    <3> QED
      BY <2>2, <3>2
  <2>5. CASE cnt[p] = 0
    <3>1. StorageP!Linked(p) \/ destroy_task = p
      BY <2>2, <2>3, <2>5 DEF StorageP!UncountedIsQueued
    <3>2. StorageP!Linked(p) => Procs!Linked(p)
      BY DEF StorageP!Linked, Procs!Linked
    <3>3. destroy_task = p => to_erase = Null
      BY <2>2, <2>3 DEF StorageP!TaskInv
    <3> QED
      BY <2>2, <3>1, <3>2, <3>3
  <2> QED
    BY <2>4, <2>5
<1> QED
  BY <1>1, <1>2, <1>3, StorageStep, LifeAlways, PTL DEF Spec
=============================================================================
