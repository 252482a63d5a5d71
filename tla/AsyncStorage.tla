---------------------------- MODULE AsyncStorage ----------------------------
(***************************************************************************)
(* async_map / async_ptr / async_ptr_source: reference-counted storage     *)
(* whose objects are destroyed asynchronously, one at a time, by the       *)
(* map's tick.  Everything runs on one libuv loop, so a call or a callback *)
(* is one atomic step; what interleaves is the order of calls, ticks and   *)
(* completions of the destroy task.                                        *)
(***************************************************************************)
EXTENDS Naturals, Sequences, FiniteSets

CONSTANTS
    Key,         \* keys of the std::map, ordered as numbers
    Obj,         \* the async_ptr_core allocations, each used once
    Holder,      \* places outside the map that can hold one async_ptr
    Null,        \* nullptr, an empty async_ptr, no entry
    HeldSource   \* TRUE: async_ptr_source::get is called only on objects
                 \* that some async_ptr still refers to

ASSUME KeyAssumption == Key \subseteq Nat /\ IsFiniteSet(Key)
ASSUME HolderAssumption == IsFiniteSet(Holder) /\ Holder \cap Key = {}
ASSUME NullAssumption == Null \notin Obj
ASSUME HeldSourceAssumption == HeldSource \in BOOLEAN

VARIABLES
    m,             \* async_map_core::m, the pointer stored under each key
    held,          \* the async_ptr of each holder
    cnt,           \* async_ptr_core::cnt
    mem,           \* whether an object's memory is allocated
    to_del,        \* objects waiting for their destroy task
    destroy_task,  \* object whose destroy task is connected in _destroy_task
    to_erase,      \* object whose destroy task has completed
    shutdown,      \* the shutdown() task: not called, suspended, returned
    spinning       \* clear() loops forever; the loop's thread never returns

storageVars ==
    <<m, held, cnt, mem, to_del, destroy_task, to_erase, shutdown, spinning>>

\* What refers to an object: keys of the map and holders.
Refs(o) == {k \in Key : m[k] = o} \cup {h \in Holder : held[h] = o}

Linked(o) == \E i \in 1..Len(to_del) : to_del[i] = o

\* k is the key of m.begin()
IsFirst(k) ==
    /\ m[k] # Null
    /\ \A j \in Key : m[j] # Null => k <= j

TypeOK ==
    /\ m \in [Key -> Obj \cup {Null}]
    /\ held \in [Holder -> Obj \cup {Null}]
    /\ cnt \in [Obj -> Nat]
    /\ mem \in [Obj -> {"unused", "allocated", "freed"}]
    /\ to_del \in Seq(Obj)
    /\ destroy_task \in Obj \cup {Null}
    /\ to_erase \in Obj \cup {Null}
    /\ shutdown \in {"no", "waiting", "returned"}
    /\ spinning \in BOOLEAN

Init ==
    /\ m = [k \in Key |-> Null]
    /\ held = [h \in Holder |-> Null]
    /\ cnt = [o \in Obj |-> 0]
    /\ mem = [o \in Obj |-> "unused"]
    /\ to_del = <<>>
    /\ destroy_task = Null
    /\ to_erase = Null
    /\ shutdown = "no"
    /\ spinning = FALSE

-----------------------------------------------------------------------------
\* The async_ptr constructor and destructor.

Acquire(o, n) == cnt' = [cnt EXCEPT ![o] = @ + n]

\* defect: the last pointer but one condemns the object
ReleaseEarly(o) ==
    /\ cnt' = [cnt EXCEPT ![o] = @ - 1]
    /\ to_del' = IF cnt[o] <= 2 THEN Append(to_del, o) ELSE to_del

\* defect: a pointer that is not the last is not counted down
ReleaseLastOnly(o) ==
    /\ cnt' = IF cnt[o] = 1 THEN [cnt EXCEPT ![o] = 0] ELSE cnt
    /\ to_del' = IF cnt[o] = 1 THEN Append(to_del, o) ELSE to_del

Release(o) ==
    /\ cnt' = [cnt EXCEPT ![o] = @ - 1]
    /\ to_del' = IF cnt[o] = 1 THEN Append(to_del, o) ELSE to_del

\* new async_ptr_core under a key that has no entry
Allocate(k, o) ==
    /\ m[k] = Null
    /\ mem[o] = "unused"
    /\ mem' = [mem EXCEPT ![o] = "allocated"]
    /\ m' = [m EXCEPT ![k] = o]

TryEmplace(k, o) ==
    /\ ~spinning
    /\ Allocate(k, o)
    /\ Acquire(o, 1)
    /\ UNCHANGED <<held, to_del, destroy_task, to_erase, shutdown, spinning>>

\* emplace also returns a pointer, which the caller keeps
Emplace(k, o, h) ==
    /\ ~spinning
    /\ held[h] = Null
    /\ Allocate(k, o)
    /\ Acquire(o, 2)
    /\ held' = [held EXCEPT ![h] = o]
    /\ UNCHANGED <<to_del, destroy_task, to_erase, shutdown, spinning>>

Erase(k) ==
    /\ ~spinning
    /\ m[k] # Null
    /\ m' = [m EXCEPT ![k] = Null]
    /\ Release(m[k])
    /\ UNCHANGED <<held, mem, destroy_task, to_erase, shutdown, spinning>>

DropPtr(h) ==
    /\ ~spinning
    /\ held[h] # Null
    /\ held' = [held EXCEPT ![h] = Null]
    /\ Release(held[h])
    /\ UNCHANGED <<m, mem, destroy_task, to_erase, shutdown, spinning>>

\* async_ptr_source::get; the source is a member of the object itself
SourceGet(o, h) ==
    /\ ~spinning
    /\ mem[o] = "allocated"
    /\ HeldSource => cnt[o] > 0
    /\ held[h] = Null
    /\ held' = [held EXCEPT ![h] = o]
    /\ Acquire(o, 1)
    /\ UNCHANGED <<m, mem, to_del, destroy_task, to_erase, shutdown, spinning>>

\* async_ptr_source::clear: the loop over m never advances its iterator, so
\* it ends only on an empty map or when the first entry is the object's
SourceClear(o) ==
    /\ ~spinning
    /\ mem[o] = "allocated"
    /\ \E k \in Key :
         /\ IsFirst(k)
         /\ \/ /\ m[k] = o
               /\ m' = [m EXCEPT ![k] = Null]
               /\ Release(o)
               /\ UNCHANGED spinning
            \/ /\ m[k] # o
               /\ spinning' = TRUE
               /\ UNCHANGED <<m, cnt, to_del>>
    /\ UNCHANGED <<held, mem, destroy_task, to_erase, shutdown>>

-----------------------------------------------------------------------------
\* Completion of the destroy task: whichever way it ends, _destroy_recv
\* records the object for the next tick.
DestroyFinish ==
    /\ ~spinning
    /\ destroy_task # Null
    /\ to_erase = Null
    /\ to_erase' = destroy_task
    /\ UNCHANGED <<m, held, cnt, mem, to_del, destroy_task, shutdown, spinning>>

\* _destroy_task as the second half of tick sees it
\* defect: _destroy_task is not reset
TaskKept == destroy_task

TaskAfterErase == IF to_erase # Null THEN Null ELSE destroy_task

\* defect: the object is not deleted
TickForget == to_erase' = Null /\ mem' = mem

TickErase ==
    /\ to_erase' = Null
    /\ mem' = IF to_erase # Null THEN [mem EXCEPT ![to_erase] = "freed"] ELSE mem

\* defect: a destroy task starts while another one runs
TickStartEager ==
    /\ to_del # <<>>
    /\ destroy_task' = Head(to_del)
    /\ to_del' = Tail(to_del)
    /\ UNCHANGED shutdown

TickStart ==
    /\ TaskAfterErase = Null
    /\ to_del # <<>>
    /\ destroy_task' = Head(to_del)
    /\ to_del' = Tail(to_del)
    /\ UNCHANGED shutdown

\* defect: shutdown is signalled while objects still wait
TickSignalEarly ==
    /\ TaskAfterErase # Null
    /\ shutdown' = IF shutdown = "waiting" THEN "returned" ELSE shutdown
    /\ UNCHANGED <<destroy_task, to_del>>

TickSignal ==
    /\ TaskAfterErase # Null
    /\ to_del = <<>>
    /\ shutdown' = IF shutdown = "waiting" THEN "returned" ELSE shutdown
    /\ UNCHANGED <<destroy_task, to_del>>

TickRest ==
    /\ (TaskAfterErase = Null) <=> (to_del = <<>>)
    /\ destroy_task' = TaskAfterErase
    /\ UNCHANGED <<to_del, shutdown>>

Tick ==
    /\ ~spinning
    /\ TickErase
    /\ TickStart \/ TickSignal \/ TickRest
    /\ UNCHANGED <<m, held, cnt, spinning>>

\* Objects whose last pointer is the map's.  std::map::clear does not say in
\* which order it destroys its elements.
LastInMap == {o \in Obj : cnt[o] = 1 /\ \E k \in Key : m[k] = o}

ListsEachOnce(q) ==
    /\ \A o \in LastInMap : \E i \in 1..Len(q) : q[i] = o
    /\ \A i, j \in 1..Len(q) : q[i] = q[j] => i = j

Shutdown ==
    /\ ~spinning
    /\ shutdown = "no"
    /\ m' = [k \in Key |-> Null]
    /\ cnt' = [o \in Obj |->
                 IF \E k \in Key : m[k] = o THEN cnt[o] - 1 ELSE cnt[o]]
    /\ \E q \in [1..Cardinality(LastInMap) -> LastInMap] :
         /\ ListsEachOnce(q)
         /\ to_del' = to_del \o q
    /\ shutdown' = IF to_del' # <<>> THEN "waiting" ELSE "returned"
    /\ UNCHANGED <<held, mem, destroy_task, to_erase, spinning>>

Next ==
    \/ \E k \in Key, o \in Obj : TryEmplace(k, o)
    \/ \E k \in Key, o \in Obj, h \in Holder : Emplace(k, o, h)
    \/ \E k \in Key : Erase(k)
    \/ \E h \in Holder : DropPtr(h)
    \/ \E o \in Obj, h \in Holder : SourceGet(o, h)
    \/ \E o \in Obj : SourceClear(o)
    \/ DestroyFinish
    \/ Tick
    \/ Shutdown

Spec == Init /\ [][Next]_storageVars

\* The idle handle ticks on every loop iteration, and a destroy task that
\* was started runs to its end.
Fairness == WF_storageVars(Tick) /\ WF_storageVars(DestroyFinish)

FairSpec == Spec /\ Fairness
=============================================================================
