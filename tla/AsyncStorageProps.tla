-------------------------- MODULE AsyncStorageProps --------------------------
(***************************************************************************)
(* What must be true of AsyncStorage.                                      *)
(***************************************************************************)
EXTENDS AsyncStorage

\* The stored count of an object is the number of async_ptr that refer to
\* it, in the map and outside it: no constructor, move, erase, clear or
\* shutdown counts one twice or forgets one (async_storage.hpp:100-148).
CountIsExact == \A o \in Obj : cnt[o] = Cardinality(Refs(o))

\* "T is kept alive as long as there is enough existing pointers to it"
\* (async_storage.hpp:16): an object that something refers to is allocated,
\* is not waiting for its destroy task and is not being destroyed.
ReferencedIsAlive ==
    \A o \in Obj : Refs(o) # {} =>
        mem[o] = "allocated" /\ ~Linked(o) /\ destroy_task # o

\* Nothing is lost: an object that nothing refers to any more is waiting for
\* its destroy task, is being destroyed, or has been freed; and it waits in
\* the list once only (async_storage.hpp:142-149, 272-287).
NoneForgotten ==
    /\ \A o \in Obj : mem[o] = "allocated" /\ Refs(o) = {} =>
         Linked(o) \/ destroy_task = o
    /\ \A i, j \in 1..Len(to_del) : to_del[i] = to_del[j] => i = j

\* A shutdown() that returns leaves no entry it found in the map unserved:
\* whatever has no pointer any more is freed or is the one object whose
\* destroy task is connected (async_storage.hpp:255-261, 279-286).
ShutdownDrains ==
    [][shutdown' = "returned" /\ shutdown # "returned" =>
         \A o \in Obj : mem'[o] = "allocated" /\ Refs(o)' = {} =>
             destroy_task' = o]_storageVars

\* Every object that lost its last pointer is freed in the end, unless a
\* call of clear() has hung the loop (async_storage.hpp:44-49).
CondemnedIsFreed ==
    \A o \in Obj : (mem[o] = "allocated" /\ cnt[o] = 0)
                     ~> (mem[o] = "freed" \/ spinning)

\* The life of an object as the storage's variables tell it.
PhaseOf(o) ==
    CASE mem[o] = "unused" -> "unborn"
      [] mem[o] = "freed" -> "dead"
      [] mem[o] = "allocated" /\ destroy_task = o -> "dying"
      [] mem[o] = "allocated" /\ destroy_task # o /\ cnt[o] = 0 -> "condemned"
      [] OTHER -> "alive"

Lifetime == INSTANCE ObjectLifetime WITH
    Ref <- Key \cup Holder,
    refs <- [o \in Obj |-> Refs(o)],
    phase <- [o \in Obj |-> PhaseOf(o)]

\* The storage implements the promise of ObjectLifetime: no object is
\* resurrected, destroyed twice or concurrently with another, or reclaimed
\* before its destroy task ended.
LifetimeSpec == Lifetime!Spec

\* Test async_storage_utest.cpp:104 calls shutdown() and says that it
\* completes: a caller that waits in shutdown() is resumed, unless a call of
\* clear() has hung the loop (async_storage.hpp:258-259, 284-285).
ShutdownReturns == shutdown = "waiting" ~> (shutdown = "returned" \/ spinning)
=============================================================================
