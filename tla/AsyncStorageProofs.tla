------------------------- MODULE AsyncStorageProofs -------------------------
(***************************************************************************)
(* Proofs about AsyncStorage: its types, the exactness of the reference    *)
(* count (for every caller), and, for callers that take a pointer from the *)
(* source only of an object that is still referred to, that a referenced   *)
(* object is alive.                                                        *)
(***************************************************************************)
EXTENDS AsyncStorageProps, FiniteSetTheorems, SequenceTheorems, TLAPS

\* What Release does to the list of objects to destroy.
Queued(o) == IF cnt[o] = 1 THEN Append(to_del, o) ELSE to_del

\* The references of an object are finitely many: cardinalities are numbers
\* that grow and shrink with the set.
LEMMA RefsFinite ==
  ASSUME NEW o \in Obj
  PROVE  /\ IsFiniteSet(Refs(o))
         /\ Cardinality(Refs(o)) \in Nat
         /\ Cardinality(Refs(o)) = 0 <=> Refs(o) = {}
<1>1. IsFiniteSet(Key \cup Holder)
  BY KeyAssumption, HolderAssumption, FS_Union
<1>2. Refs(o) \in SUBSET (Key \cup Holder)
  BY DEF Refs
<1>3. IsFiniteSet(Refs(o))
  BY <1>1, <1>2, FS_Subset
<1> QED
  BY <1>3, FS_CardinalityType, FS_EmptySet

\* A reference more, or one less, is one more or one less counted.
LEMMA AddRef ==
  ASSUME NEW o \in Obj, NEW x, x \notin Refs(o)
  PROVE  Cardinality(Refs(o) \cup {x}) = Cardinality(Refs(o)) + 1
BY RefsFinite, FS_AddElement

LEMMA RemoveRef ==
  ASSUME NEW o \in Obj, NEW x, x \in Refs(o)
  PROVE  Cardinality(Refs(o) \ {x}) = Cardinality(Refs(o)) - 1
BY RefsFinite, FS_RemoveElement

LEMMA MoveRef ==
  ASSUME NEW o \in Obj, NEW x, x \in Refs(o), NEW y, y \notin Refs(o)
  PROVE  Cardinality((Refs(o) \ {x}) \cup {y}) = Cardinality(Refs(o))
<1>1. IsFiniteSet(Refs(o) \ {x}) /\ y \notin Refs(o) \ {x}
  BY RefsFinite, FS_RemoveElement
<1>2. Cardinality((Refs(o) \ {x}) \cup {y}) = Cardinality(Refs(o) \ {x}) + 1
  BY <1>1, FS_AddElement
<1> QED
  BY <1>2, RemoveRef, RefsFinite

\* Each mapped object is stored under one key only, and only once allocated.
OneEntry ==
    /\ \A k, l \in Key : m[k] # Null /\ m[k] = m[l] => k = l
    /\ \A k \in Key : m[k] # Null => mem[m[k]] # "unused"

UnusedUncounted == \A o \in Obj : mem[o] = "unused" => cnt[o] = 0

\* Inductive whoever calls.
CountInv == TypeOK /\ CountIsExact /\ OneEntry /\ UnusedUncounted

-----------------------------------------------------------------------------
\* A step that gives one object one more reference and counts it, and
\* touches no other object, keeps the count exact.
LEMMA GainKeepsCount ==
  ASSUME TypeOK, CountIsExact, NEW o \in Obj, NEW x, x \notin Refs(o),
         Refs(o)' = Refs(o) \cup {x},
         \A p \in Obj \ {o} : Refs(p)' = Refs(p),
         Acquire(o, 1)
  PROVE  CountIsExact'
<1>1. Cardinality(Refs(o)') = cnt[o] + 1
  BY AddRef DEF CountIsExact
<1>2. cnt'[o] = cnt[o] + 1 /\ \A p \in Obj \ {o} : cnt'[p] = cnt[p]
  BY DEF Acquire, TypeOK
<1>3. \A p \in Obj \ {o} : cnt'[p] = Cardinality(Refs(p)')
  BY <1>2 DEF CountIsExact
<1> QED
  BY <1>1, <1>2, <1>3 DEF CountIsExact

\* The same for a reference that goes away.
LEMMA LossKeepsCount ==
  ASSUME TypeOK, CountIsExact, NEW o \in Obj, NEW x, x \in Refs(o),
         Refs(o)' = Refs(o) \ {x},
         \A p \in Obj \ {o} : Refs(p)' = Refs(p),
         Release(o)
  PROVE  /\ CountIsExact'
         /\ cnt[o] > 0
         /\ cnt' \in [Obj -> Nat]
         /\ to_del' \in Seq(Obj)
         /\ to_del' = Queued(o)
<1>1. Cardinality(Refs(o)') = cnt[o] - 1
  BY RemoveRef DEF CountIsExact
<1>2. cnt[o] \in Nat /\ cnt[o] > 0
  BY RefsFinite DEF CountIsExact, TypeOK
<1>3. cnt'[o] = cnt[o] - 1 /\ \A p \in Obj \ {o} : cnt'[p] = cnt[p]
  BY DEF Release, TypeOK
<1>4. \A p \in Obj \ {o} : cnt'[p] = Cardinality(Refs(p)')
  BY <1>3 DEF CountIsExact
<1>5. CountIsExact'
  BY <1>1, <1>3, <1>4 DEF CountIsExact
<1>6. cnt' \in [Obj -> Nat]
  BY <1>2 DEF Release, TypeOK
<1>7. to_del' = Queued(o) /\ to_del' \in Seq(Obj)
  BY DEF Release, TypeOK, Queued
<1> QED
  BY <1>2, <1>5, <1>6, <1>7

\* What a step does to the references, named by the entry or the holder it
\* changes.
LEMMA EntrySet ==
  ASSUME TypeOK, NEW k \in Key, NEW o \in Obj, m[k] = Null,
         m' = [m EXCEPT ![k] = o], UNCHANGED held
  PROVE  /\ k \notin Refs(o)
         /\ Refs(o)' = Refs(o) \cup {k}
         /\ \A p \in Obj \ {o} : Refs(p)' = Refs(p)
BY NullAssumption, HolderAssumption DEF TypeOK, Refs

LEMMA EntryCleared ==
  ASSUME TypeOK, NEW k \in Key, NEW o \in Obj, m[k] = o,
         m' = [m EXCEPT ![k] = Null], UNCHANGED held
  PROVE  /\ k \in Refs(o)
         /\ Refs(o)' = Refs(o) \ {k}
         /\ \A p \in Obj \ {o} : Refs(p)' = Refs(p)
BY NullAssumption, HolderAssumption DEF TypeOK, Refs

LEMMA HolderSet ==
  ASSUME TypeOK, NEW h \in Holder, NEW o \in Obj, held[h] = Null,
         held' = [held EXCEPT ![h] = o], UNCHANGED m
  PROVE  /\ h \notin Refs(o)
         /\ Refs(o)' = Refs(o) \cup {h}
         /\ \A p \in Obj \ {o} : Refs(p)' = Refs(p)
BY NullAssumption, HolderAssumption DEF TypeOK, Refs

LEMMA HolderCleared ==
  ASSUME TypeOK, NEW h \in Holder, NEW o \in Obj, held[h] = o,
         held' = [held EXCEPT ![h] = Null], UNCHANGED m
  PROVE  /\ h \in Refs(o)
         /\ Refs(o)' = Refs(o) \ {h}
         /\ \A p \in Obj \ {o} : Refs(p)' = Refs(p)
BY NullAssumption, HolderAssumption DEF TypeOK, Refs

-----------------------------------------------------------------------------
\* CountInv is inductive: no assumption on the callers.
LEMMA CountInit == Init => CountInv
<1> SUFFICES ASSUME Init PROVE CountInv
  OBVIOUS
<1>1. \A o \in Obj : Refs(o) = {}
  BY NullAssumption DEF Init, Refs
<1>2. CountIsExact
  BY <1>1, FS_EmptySet DEF Init, CountIsExact
<1>3. TypeOK
  <2>1. to_del \in Seq(Obj)
    BY DEF Init
  <2>2. m \in [Key -> Obj \cup {Null}] /\ held \in [Holder -> Obj \cup {Null}]
    BY DEF Init
  <2>3. cnt \in [Obj -> Nat] /\ mem \in [Obj -> {"unused", "allocated", "freed"}]
    BY DEF Init
  <2> QED
    BY <2>1, <2>2, <2>3 DEF Init, TypeOK
<1>4. OneEntry /\ UnusedUncounted
  BY DEF Init, OneEntry, UnusedUncounted
<1> QED
  BY <1>2, <1>3, <1>4 DEF CountInv

LEMMA TryEmplaceKeepsCount ==
  ASSUME CountInv, NEW k \in Key, NEW o \in Obj, TryEmplace(k, o)
  PROVE  CountInv'
<1> USE NullAssumption DEF CountInv
<1>1. TypeOK'
  BY DEF TypeOK, TryEmplace, Allocate, Acquire
<1>2. CountIsExact'
  <2>1. /\ k \notin Refs(o)
        /\ Refs(o)' = Refs(o) \cup {k}
        /\ \A p \in Obj \ {o} : Refs(p)' = Refs(p)
    BY EntrySet DEF TryEmplace, Allocate
  <2> QED
    BY <2>1, GainKeepsCount DEF TryEmplace
<1>3. OneEntry'
  BY <1>1 DEF OneEntry, TypeOK, TryEmplace, Allocate
<1>4. UnusedUncounted'
  BY DEF UnusedUncounted, TypeOK, TryEmplace, Allocate, Acquire
<1> QED
  BY <1>1, <1>2, <1>3, <1>4

LEMMA EmplaceKeepsCount ==
  ASSUME CountInv, NEW k \in Key, NEW o \in Obj, NEW h \in Holder,
         Emplace(k, o, h)
  PROVE  CountInv'
<1> USE NullAssumption DEF CountInv
<1>1. TypeOK'
  BY DEF TypeOK, Emplace, Allocate, Acquire
<1>2. CountIsExact'
  <2>1. cnt[o] = 0 /\ Refs(o) = {}
    BY RefsFinite DEF Emplace, Allocate, UnusedUncounted, CountIsExact
  <2>2. Refs(o)' = {k} \cup {h} /\ k # h
    BY <2>1, HolderAssumption DEF Emplace, Allocate, TypeOK, Refs
  <2>3. Cardinality(Refs(o)') = 2
    <3>1. IsFiniteSet({k}) /\ Cardinality({k}) = 1
      BY FS_Singleton
    <3>2. h \notin {k}
      BY <2>2
    <3>3. Cardinality({k} \cup {h}) = Cardinality({k}) + 1
      BY <3>1, <3>2, FS_AddElement, Zenon
    <3> QED
      BY <2>2, <3>1, <3>3
  <2>4. \A p \in Obj \ {o} : Refs(p)' = Refs(p)
    BY DEF Emplace, Allocate, TypeOK, Refs
  <2>5. cnt'[o] = 2 /\ \A p \in Obj \ {o} : cnt'[p] = cnt[p]
    BY <2>1 DEF Emplace, Acquire, TypeOK
  <2>6. \A p \in Obj \ {o} : cnt'[p] = Cardinality(Refs(p)')
    BY <2>4, <2>5 DEF CountIsExact
  <2> QED
    BY <2>3, <2>5, <2>6 DEF CountIsExact
<1>3. OneEntry'
  BY <1>1 DEF OneEntry, TypeOK, Emplace, Allocate
<1>4. UnusedUncounted'
  BY DEF UnusedUncounted, TypeOK, Emplace, Allocate, Acquire
<1> QED
  BY <1>1, <1>2, <1>3, <1>4

LEMMA EraseKeepsCount ==
  ASSUME CountInv, NEW k \in Key, Erase(k)
  PROVE  CountInv'
<1> USE DEF CountInv
<1>1. PICK o \in Obj : m[k] = o
  BY DEF Erase, TypeOK
<1>2. /\ k \in Refs(o)
      /\ Refs(o)' = Refs(o) \ {k}
      /\ \A p \in Obj \ {o} : Refs(p)' = Refs(p)
  BY <1>1, EntryCleared DEF Erase
<1>3. /\ CountIsExact'
      /\ cnt[o] > 0
      /\ cnt' \in [Obj -> Nat]
      /\ to_del' \in Seq(Obj)
  BY <1>1, <1>2, LossKeepsCount DEF Erase
<1>4. TypeOK'
  BY <1>3 DEF TypeOK, Erase
<1>5. OneEntry'
  BY <1>4, NullAssumption DEF OneEntry, TypeOK, Erase
<1>6. UnusedUncounted'
  BY <1>1, <1>3 DEF UnusedUncounted, TypeOK, Erase, Release
<1> QED
  BY <1>3, <1>4, <1>5, <1>6

LEMMA DropPtrKeepsCount ==
  ASSUME CountInv, NEW h \in Holder, DropPtr(h)
  PROVE  CountInv'
<1> USE DEF CountInv
<1>1. PICK o \in Obj : held[h] = o
  BY DEF DropPtr, TypeOK
<1>2. /\ h \in Refs(o)
      /\ Refs(o)' = Refs(o) \ {h}
      /\ \A p \in Obj \ {o} : Refs(p)' = Refs(p)
  BY <1>1, HolderCleared DEF DropPtr
<1>3. /\ CountIsExact'
      /\ cnt[o] > 0
      /\ cnt' \in [Obj -> Nat]
      /\ to_del' \in Seq(Obj)
  BY <1>1, <1>2, LossKeepsCount DEF DropPtr
<1>4. TypeOK'
  BY <1>3 DEF TypeOK, DropPtr
<1>5. OneEntry'
  BY DEF OneEntry, DropPtr
<1>6. UnusedUncounted'
  BY <1>1, <1>3 DEF UnusedUncounted, TypeOK, DropPtr, Release
<1> QED
  BY <1>3, <1>4, <1>5, <1>6

LEMMA SourceGetKeepsCount ==
  ASSUME CountInv, NEW o \in Obj, NEW h \in Holder, SourceGet(o, h)
  PROVE  CountInv'
<1> USE DEF CountInv
<1>1. /\ h \notin Refs(o)
      /\ Refs(o)' = Refs(o) \cup {h}
      /\ \A p \in Obj \ {o} : Refs(p)' = Refs(p)
  BY HolderSet DEF SourceGet
<1>2. CountIsExact'
  BY <1>1, GainKeepsCount DEF SourceGet
<1>3. TypeOK' /\ OneEntry' /\ UnusedUncounted'
  BY DEF TypeOK, OneEntry, UnusedUncounted, SourceGet, Acquire
<1> QED
  BY <1>2, <1>3

LEMMA SourceClearKeepsCount ==
  ASSUME CountInv, NEW o \in Obj, SourceClear(o)
  PROVE  CountInv'
<1> USE DEF CountInv
<1>1. PICK k \in Key :
        \/ /\ m[k] = o
           /\ m' = [m EXCEPT ![k] = Null]
           /\ Release(o)
           /\ UNCHANGED spinning
        \/ /\ spinning' = TRUE
           /\ UNCHANGED <<m, cnt, to_del>>
  BY DEF SourceClear
<1>2. CASE /\ m[k] = o
           /\ m' = [m EXCEPT ![k] = Null]
           /\ Release(o)
           /\ UNCHANGED spinning
  <2>1. /\ k \in Refs(o)
        /\ Refs(o)' = Refs(o) \ {k}
        /\ \A p \in Obj \ {o} : Refs(p)' = Refs(p)
    BY <1>2, EntryCleared DEF SourceClear
  <2>2. /\ CountIsExact'
        /\ cnt[o] > 0
        /\ cnt' \in [Obj -> Nat]
        /\ to_del' \in Seq(Obj)
    BY <1>2, <2>1, LossKeepsCount
  <2>3. TypeOK'
    BY <1>2, <2>2 DEF TypeOK, SourceClear
  <2>4. OneEntry'
    BY <1>2, <2>3, NullAssumption DEF OneEntry, TypeOK, SourceClear
  <2>5. UnusedUncounted'
    BY <1>2, <2>2 DEF UnusedUncounted, TypeOK, SourceClear, Release
  <2> QED
    BY <2>2, <2>3, <2>4, <2>5
<1>3. CASE spinning' = TRUE /\ UNCHANGED <<m, cnt, to_del>>
  <2>1. UNCHANGED <<m, held, cnt, mem, to_del, destroy_task, to_erase, shutdown>>
    BY <1>3 DEF SourceClear
  <2> QED
    BY <1>3, <2>1 DEF TypeOK, CountIsExact, Refs, OneEntry, UnusedUncounted
<1> QED
  BY <1>1, <1>2, <1>3

LEMMA TickKeepsCount ==
  ASSUME CountInv, Tick
  PROVE  CountInv'
<1> USE DEF CountInv
<1>1. to_erase' = Null /\ mem' \in [Obj -> {"unused", "allocated", "freed"}]
  BY NullAssumption DEF Tick, TickErase, TypeOK
<1>2. to_del' \in Seq(Obj) /\ destroy_task' \in Obj \cup {Null}
  <2>1. CASE TickStart
    BY <2>1 DEF TickStart, TypeOK
  <2>2. CASE TickSignal \/ TickRest
    BY <2>2 DEF TickSignal, TickRest, TaskAfterErase, TypeOK
  <2> QED
    BY <2>1, <2>2 DEF Tick
<1>3. shutdown' \in {"no", "waiting", "returned"}
  BY DEF Tick, TickStart, TickSignal, TickRest, TypeOK
<1>4. TypeOK'
  BY <1>1, <1>2, <1>3 DEF Tick, TypeOK
<1>5. \A o \in Obj : mem'[o] = "unused" => mem[o] = "unused"
  BY DEF Tick, TickErase, TypeOK
<1>6. CountIsExact'
  BY DEF CountIsExact, Refs, Tick
<1> QED
  BY <1>4, <1>5, <1>6, NullAssumption DEF Tick, OneEntry, UnusedUncounted, TypeOK

\* Shutdown takes every entry out of the map; an object has at most one.
LEMMA ShutdownRefs ==
  ASSUME CountInv, Shutdown, NEW o \in Obj
  PROVE  /\ cnt'[o] \in Nat
         /\ cnt'[o] = Cardinality(Refs(o)')
         /\ (\E k \in Key : m[k] = o) => cnt[o] > 0 /\ cnt'[o] = cnt[o] - 1
         /\ ~(\E k \in Key : m[k] = o) => cnt'[o] = cnt[o]
<1> USE DEF CountInv
<1>1. cnt[o] \in Nat /\ cnt[o] = Cardinality(Refs(o))
  BY DEF TypeOK, CountIsExact
<1>2. CASE \E k \in Key : m[k] = o
  <2>1. PICK k \in Key : m[k] = o
    BY <1>2
  <2>2. k \in Refs(o)
    BY <2>1 DEF Refs
  <2>3. Refs(o)' = Refs(o) \ {k}
    <3>1. \A j \in Key : m[j] = o => j = k
      BY <2>1, NullAssumption DEF OneEntry
    <3> QED
      BY <3>1, NullAssumption, HolderAssumption DEF Shutdown, Refs
  <2>4. Cardinality(Refs(o)') = cnt[o] - 1
    BY <1>1, <2>2, <2>3, RemoveRef
  <2>5. cnt[o] > 0
    BY <1>1, <2>2, RefsFinite
  <2>6. cnt'[o] = cnt[o] - 1
    BY <1>2 DEF Shutdown
  <2> QED
    BY <1>1, <1>2, <2>4, <2>5, <2>6
<1>3. CASE ~ \E k \in Key : m[k] = o
  <2>1. Refs(o)' = Refs(o)
    BY <1>3, NullAssumption DEF Shutdown, Refs
  <2>2. cnt'[o] = cnt[o]
    BY <1>3 DEF Shutdown
  <2> QED
    BY <1>1, <1>3, <2>1, <2>2
<1> QED
  BY <1>2, <1>3

\* Only so many objects as there are keys can be in the map.
LEMMA LastInMapFinite ==
  ASSUME CountInv
  PROVE  IsFiniteSet(LastInMap) /\ Cardinality(LastInMap) \in Nat
<1> DEFINE K == {k \in Key : m[k] \in LastInMap}
           f == [k \in K |-> m[k]]
<1>1. IsFiniteSet(K)
  BY KeyAssumption, FS_Subset
<1>2. f \in Surjection(K, LastInMap)
  BY DEF LastInMap, Surjection
<1> QED
  BY <1>1, <1>2, FS_Surjection, FS_CardinalityType

LEMMA ShutdownKeepsCount ==
  ASSUME CountInv, Shutdown
  PROVE  CountInv'
<1> USE DEF CountInv
<1>1. CountIsExact'
  BY ShutdownRefs DEF CountIsExact
<1>2. cnt' \in [Obj -> Nat]
  <2>1. cnt' = [o \in Obj |-> cnt'[o]]
    BY DEF Shutdown
  <2> QED
    BY <2>1, ShutdownRefs
<1>3. to_del' \in Seq(Obj)
  <2>1. PICK q \in [1..Cardinality(LastInMap) -> LastInMap] : to_del' = to_del \o q
    BY DEF Shutdown
  <2>2. Cardinality(LastInMap) \in Nat
    BY LastInMapFinite
  <2>3. q \in [1..Cardinality(LastInMap) -> Obj]
    BY DEF LastInMap
  <2>4. q \in Seq(Obj)
    BY <2>2, <2>3, SeqDef
  <2> QED
    BY <2>1, <2>4 DEF TypeOK
<1>4. TypeOK'
  BY <1>2, <1>3 DEF TypeOK, Shutdown
<1>5. OneEntry'
  BY DEF OneEntry, Shutdown
<1>6. UnusedUncounted'
  <2>1. \A o \in Obj : mem[o] = "unused" => ~ \E k \in Key : m[k] = o
    BY NullAssumption DEF OneEntry
  <2> QED
    BY <2>1 DEF UnusedUncounted, Shutdown, TypeOK
<1> QED
  BY <1>1, <1>4, <1>5, <1>6

LEMMA CountStep == CountInv /\ [Next]_storageVars => CountInv'
<1> SUFFICES ASSUME CountInv, [Next]_storageVars PROVE CountInv'
  OBVIOUS
<1>1. ASSUME NEW k \in Key, NEW o \in Obj, TryEmplace(k, o) PROVE CountInv'
  BY <1>1, TryEmplaceKeepsCount
<1>2. ASSUME NEW k \in Key, NEW o \in Obj, NEW h \in Holder, Emplace(k, o, h)
      PROVE CountInv'
  BY <1>2, EmplaceKeepsCount
<1>3. ASSUME NEW k \in Key, Erase(k) PROVE CountInv'
  BY <1>3, EraseKeepsCount
<1>4. ASSUME NEW h \in Holder, DropPtr(h) PROVE CountInv'
  BY <1>4, DropPtrKeepsCount
<1>5. ASSUME NEW o \in Obj, NEW h \in Holder, SourceGet(o, h) PROVE CountInv'
  BY <1>5, SourceGetKeepsCount
<1>6. ASSUME NEW o \in Obj, SourceClear(o) PROVE CountInv'
  BY <1>6, SourceClearKeepsCount
<1>7. CASE DestroyFinish
  BY <1>7 DEF DestroyFinish, CountInv, TypeOK, CountIsExact, Refs, OneEntry,
              UnusedUncounted
<1>8. CASE Tick
  BY <1>8, TickKeepsCount
<1>9. CASE Shutdown
  BY <1>9, ShutdownKeepsCount
<1>10. CASE UNCHANGED storageVars
  BY <1>10 DEF storageVars, CountInv, TypeOK, CountIsExact, Refs, OneEntry,
               UnusedUncounted
<1> QED
  BY <1>1, <1>2, <1>3, <1>4, <1>5, <1>6, <1>7, <1>8, <1>9, <1>10 DEF Next

LEMMA CountInvariant == Spec => []CountInv
BY CountInit, CountStep, PTL DEF Spec

\* Every variable stays in its type, the reference counts in particular
\* never go below zero (async_storage.hpp:142-148).
THEOREM TypeCorrect == Spec => []TypeOK
<1>1. CountInv => TypeOK
  BY DEF CountInv
<1> QED
  BY <1>1, CountInvariant, PTL

\* The stored count is the number of references, for every caller, also one
\* that takes pointers to objects already condemned.
THEOREM CountCorrect == Spec => []CountIsExact
<1>1. CountInv => CountIsExact
  BY DEF CountInv
<1> QED
  BY <1>1, CountInvariant, PTL

-----------------------------------------------------------------------------
\* What the list of condemned objects, the destroy task and the memory know
\* about each other, when pointers are taken from the source of referenced
\* objects only.
ListInv ==
    /\ \A i \in 1..Len(to_del) :
         cnt[to_del[i]] = 0 /\ mem[to_del[i]] = "allocated" /\ to_del[i] # destroy_task
    /\ \A i, j \in 1..Len(to_del) : to_del[i] = to_del[j] => i = j

TaskInv ==
    /\ destroy_task # Null => cnt[destroy_task] = 0 /\ mem[destroy_task] = "allocated"
    /\ to_erase # Null => to_erase = destroy_task

FreedUncounted == \A o \in Obj : mem[o] = "freed" => cnt[o] = 0

UncountedIsQueued ==
    \A o \in Obj : mem[o] = "allocated" /\ cnt[o] = 0 => Linked(o) \/ destroy_task = o

QueueInv == ListInv /\ TaskInv /\ FreedUncounted /\ UncountedIsQueued

\* Dropping a pointer: the object, if it was the last, is new in the list.
LEMMA ReleaseKeepsQueue ==
  ASSUME TypeOK, QueueInv, UnusedUncounted, NEW o \in Obj, cnt[o] > 0, Release(o),
         UNCHANGED <<mem, destroy_task, to_erase>>
  PROVE  QueueInv'
<1>1. mem[o] = "allocated"
  BY DEF TypeOK, QueueInv, FreedUncounted, UnusedUncounted
<1>2. cnt'[o] = cnt[o] - 1 /\ \A p \in Obj \ {o} : cnt'[p] = cnt[p]
  BY DEF Release, TypeOK
<1>3. ~Linked(o) /\ destroy_task # o
  BY NullAssumption DEF QueueInv, ListInv, TaskInv, Linked
<1>4. CASE cnt[o] = 1
  <2>1. to_del' = Append(to_del, o)
    BY <1>4 DEF Release
  <2>2. /\ Len(to_del') = Len(to_del) + 1
        /\ to_del'[Len(to_del) + 1] = o
        /\ \A i \in 1..Len(to_del) : to_del'[i] = to_del[i] /\ to_del[i] \in Obj
        /\ Len(to_del) \in Nat
    BY <2>1 DEF TypeOK
  <2>3. ListInv'
    <3>1. ASSUME NEW i \in 1..Len(to_del')
          PROVE  cnt'[to_del'[i]] = 0 /\ mem'[to_del'[i]] = "allocated"
                 /\ to_del'[i] # destroy_task'
      <4>1. CASE i = Len(to_del) + 1
        BY <1>1, <1>2, <1>3, <1>4, <2>2, <4>1
      <4>2. CASE i # Len(to_del) + 1
        <5>1. i \in 1..Len(to_del) /\ to_del'[i] = to_del[i] /\ to_del[i] \in Obj \ {o}
          BY <1>3, <2>2, <4>2 DEF Linked
        <5> QED
          BY <1>2, <5>1 DEF QueueInv, ListInv
      <4> QED
        BY <4>1, <4>2
    <3>2. ASSUME NEW i \in 1..Len(to_del'), NEW j \in 1..Len(to_del'),
                 to_del'[i] = to_del'[j]
          PROVE  i = j
      BY <1>3, <2>2, <3>2 DEF QueueInv, ListInv, Linked
    <3> QED
      BY <3>1, <3>2 DEF ListInv
  <2>4. UncountedIsQueued'
    BY <1>2, <2>2 DEF QueueInv, UncountedIsQueued, Linked, TypeOK
  <2> QED
    BY <1>1, <1>2, <1>3, <2>3, <2>4 DEF QueueInv, TaskInv, FreedUncounted, TypeOK
<1>5. CASE cnt[o] # 1
  <2>1. to_del' = to_del /\ cnt'[o] # 0
    BY <1>2, <1>5 DEF Release, TypeOK
  <2>2. \A i \in 1..Len(to_del) : to_del[i] \in Obj
    BY DEF TypeOK
  <2>3. ListInv' /\ UncountedIsQueued'
    BY <1>2, <1>3, <2>1, <2>2
       DEF QueueInv, ListInv, UncountedIsQueued, Linked, TypeOK
  <2> QED
    BY <1>1, <1>2, <1>3, <2>3 DEF QueueInv, TaskInv, FreedUncounted, TypeOK
<1> QED
  BY <1>4, <1>5

\* Counting more pointers to an object that is not condemned.
LEMMA AcquireKeepsQueue ==
  ASSUME TypeOK, QueueInv, NEW o \in Obj, NEW n \in Nat \ {0},
         cnt[o] > 0 \/ mem[o] = "unused", Acquire(o, n),
         mem' = [mem EXCEPT ![o] = "allocated"],
         UNCHANGED <<to_del, destroy_task, to_erase>>
  PROVE  QueueInv'
<1>1. cnt'[o] > 0 /\ \A p \in Obj \ {o} : cnt'[p] = cnt[p] /\ mem'[p] = mem[p]
  BY DEF Acquire, TypeOK
<1>2. \A i \in 1..Len(to_del) : to_del[i] \in Obj \ {o}
  BY DEF QueueInv, ListInv, TypeOK
<1>3. destroy_task # o /\ mem'[o] = "allocated"
  BY NullAssumption DEF QueueInv, TaskInv, TypeOK
<1>4. ListInv'
  BY <1>1, <1>2 DEF QueueInv, ListInv
<1>5. TaskInv'
  BY <1>1, <1>3 DEF QueueInv, TaskInv, TypeOK
<1> QED
  BY <1>1, <1>3, <1>4, <1>5
     DEF QueueInv, FreedUncounted, UncountedIsQueued, Linked

LEMMA TickKeepsQueue ==
  ASSUME TypeOK, QueueInv, Tick
  PROVE  QueueInv'
<1> DEFINE task == TaskAfterErase
<1>1. /\ \A i \in 1..Len(to_del) : to_del[i] # to_erase
      /\ to_erase # Null => to_erase \in Obj /\ cnt[to_erase] = 0
  <2>1. \A i \in 1..Len(to_del) : to_del[i] \in Obj /\ to_del[i] # destroy_task
    BY DEF QueueInv, ListInv, TypeOK
  <2>2. to_erase # Null => to_erase = destroy_task /\ to_erase \in Obj
    BY DEF QueueInv, TaskInv, TypeOK
  <2> QED
    BY <2>1, <2>2, NullAssumption DEF QueueInv, TaskInv
<1>2. \A o \in Obj : mem'[o] = IF o = to_erase THEN "freed" ELSE mem[o]
  BY NullAssumption DEF Tick, TickErase, TypeOK
<1>3. FreedUncounted'
  BY <1>1, <1>2, NullAssumption DEF QueueInv, FreedUncounted, Tick
<1>4. /\ task # Null => task = destroy_task /\ to_erase = Null
      /\ task = Null => destroy_task = to_erase
      /\ task \in Obj \cup {Null}
  BY DEF TaskAfterErase, QueueInv, TaskInv, TypeOK
<1>5. CASE TickStart
  <2>1. /\ Len(to_del) \in Nat /\ Len(to_del) > 0 /\ Len(to_del') = Len(to_del) - 1
        /\ destroy_task' = to_del[1]
        /\ \A i \in 1..Len(to_del') : to_del'[i] = to_del[i + 1]
        /\ \A i \in 1..Len(to_del) : to_del[i] \in Obj
    BY <1>5 DEF TickStart, TypeOK
  <2>2. ListInv'
    <3>1. cnt' = cnt
      BY DEF Tick
    <3>2. ASSUME NEW i \in 1..Len(to_del')
          PROVE  /\ cnt'[to_del'[i]] = 0
                 /\ mem'[to_del'[i]] = "allocated"
                 /\ to_del'[i] # destroy_task'
      <4>1. i + 1 \in 1..Len(to_del) /\ 1 \in 1..Len(to_del) /\ i + 1 # 1
        BY <2>1
      <4>2. to_del'[i] = to_del[i + 1] /\ to_del[i + 1] # to_del[1]
        BY <2>1, <4>1 DEF QueueInv, ListInv
      <4>3. /\ cnt[to_del[i + 1]] = 0
            /\ mem[to_del[i + 1]] = "allocated"
            /\ to_del[i + 1] # destroy_task
        BY <4>1 DEF QueueInv, ListInv
      <4>4. to_del[i + 1] # to_erase
        BY <4>1, <4>3, <2>1, NullAssumption DEF QueueInv, TaskInv
      <4> QED
        BY <1>2, <2>1, <3>1, <4>1, <4>2, <4>3, <4>4
    <3>3. ASSUME NEW i \in 1..Len(to_del'), NEW j \in 1..Len(to_del'),
                 to_del'[i] = to_del'[j]
          PROVE  i = j
      <4>1. i + 1 \in 1..Len(to_del) /\ j + 1 \in 1..Len(to_del)
        BY <2>1
      <4>2. to_del[i + 1] = to_del[j + 1]
        BY <2>1, <3>3
      <4>3. i + 1 = j + 1
        BY <4>1, <4>2 DEF QueueInv, ListInv
      <4> QED
        BY <4>3
    <3> QED
      BY <3>2, <3>3 DEF ListInv
  <2>3. TaskInv'
    BY <1>1, <1>2, <2>1 DEF QueueInv, ListInv, TaskInv, Tick, TickErase
  <2>4. ASSUME NEW o \in Obj, mem'[o] = "allocated", cnt'[o] = 0
        PROVE  Linked(o)' \/ destroy_task' = o
    <3>1. mem[o] = "allocated" /\ o # to_erase /\ cnt[o] = 0
      BY <1>2, <2>4 DEF Tick
    <3>2. Linked(o)
      BY <1>4, <1>5, <3>1 DEF TickStart, QueueInv, UncountedIsQueued
    <3>3. PICK i \in 1..Len(to_del) : to_del[i] = o
      BY <3>2 DEF Linked
    <3>4. CASE i = 1
      BY <2>1, <3>3, <3>4
    <3>5. CASE i # 1
      <4>1. i - 1 \in 1..Len(to_del') /\ to_del'[i - 1] = o
        BY <2>1, <3>3, <3>5
      <4> QED
        BY <4>1 DEF Linked
    <3> QED
      BY <3>4, <3>5
  <2> QED
    BY <1>3, <2>2, <2>3, <2>4 DEF QueueInv, UncountedIsQueued
<1>6. CASE TickSignal \/ TickRest
  <2>1. destroy_task' = task /\ to_del' = to_del
    BY <1>6, <1>4 DEF TickSignal, TickRest
  <2>2. \A i \in 1..Len(to_del) : to_del[i] \in Obj
    BY DEF TypeOK
  <2>3. ListInv'
    BY <1>1, <1>2, <1>4, <2>1, <2>2, NullAssumption DEF QueueInv, ListInv, Tick
  <2>4. TaskInv'
    BY <1>1, <1>2, <1>4, <2>1 DEF QueueInv, TaskInv, Tick, TickErase
  <2>5. UncountedIsQueued'
    BY <1>1, <1>2, <1>4, <2>1 DEF QueueInv, UncountedIsQueued, Linked, Tick
  <2> QED
    BY <1>3, <2>3, <2>4, <2>5 DEF QueueInv
<1> QED
  BY <1>5, <1>6 DEF Tick

LEMMA ShutdownKeepsQueue ==
  ASSUME CountInv, QueueInv, Shutdown
  PROVE  QueueInv'
<1> USE DEF CountInv
<1>1. PICK q \in [1..Cardinality(LastInMap) -> LastInMap] :
        ListsEachOnce(q) /\ to_del' = to_del \o q
  BY DEF Shutdown
<1>2. /\ q \in Seq(Obj)
      /\ Len(q) \in Nat
      /\ \A i \in 1..Len(q) : q[i] \in LastInMap
  <2>1. Cardinality(LastInMap) \in Nat
    BY LastInMapFinite
  <2>2. q \in Seq(LastInMap)
    BY <2>1, SeqDef
  <2> QED
    BY <2>2, SeqMonotonic, LenProperties DEF LastInMap
<1>3. /\ Len(to_del) \in Nat
      /\ Len(to_del') = Len(to_del) + Len(q)
      /\ \A i \in 1..Len(to_del) : to_del'[i] = to_del[i] /\ to_del[i] \in Obj
      /\ \A i \in 1..Len(q) : to_del'[Len(to_del) + i] = q[i]
  BY <1>1, <1>2 DEF TypeOK
<1>4. \A o \in Obj : IF \E k \in Key : m[k] = o
                     THEN cnt[o] > 0 /\ cnt'[o] = cnt[o] - 1
                     ELSE cnt'[o] = cnt[o]
  BY ShutdownRefs
<1>suffix. ASSUME NEW i \in 1..Len(to_del'), i \notin 1..Len(to_del)
           PROVE  i - Len(to_del) \in 1..Len(q) /\ to_del'[i] = q[i - Len(to_del)]
  <2>1. i - Len(to_del) \in 1..Len(q)
    BY <1>2, <1>3, <1>suffix
  <2>2. i = Len(to_del) + (i - Len(to_del))
    BY <1>3, <1>suffix
  <2> QED
    BY <1>3, <2>1, <2>2
<1>5. \A o \in Obj : cnt[o] = 0 => cnt'[o] = 0
  BY <1>4
<1>6. \A o \in LastInMap : /\ o \in Obj
                           /\ cnt[o] = 1
                           /\ cnt'[o] = 0
                           /\ mem[o] = "allocated"
                           /\ o # destroy_task
                           /\ ~Linked(o)
  <2> SUFFICES ASSUME NEW o \in LastInMap
               PROVE  /\ cnt'[o] = 0
                      /\ mem[o] = "allocated"
                      /\ o # destroy_task
                      /\ ~Linked(o)
    BY DEF LastInMap
  <2>1. o \in Obj /\ cnt[o] = 1 /\ cnt'[o] = 0
    BY <1>4 DEF LastInMap
  <2>2. mem[o] = "allocated"
    <3>1. mem[o] \in {"unused", "allocated", "freed"}
      BY <2>1 DEF TypeOK
    <3>2. mem[o] # "unused"
      BY <2>1 DEF UnusedUncounted
    <3>3. mem[o] # "freed"
      BY <2>1 DEF QueueInv, FreedUncounted
    <3> QED
      BY <3>1, <3>2, <3>3
  <2>3. o # destroy_task
    BY <2>1, NullAssumption DEF QueueInv, TaskInv
  <2>4. ~Linked(o)
    BY <2>1 DEF QueueInv, ListInv, Linked
  <2> QED
    BY <2>1, <2>2, <2>3, <2>4
<1>7. \A i, j \in 1..Len(q) : q[i] = q[j] => i = j
  BY <1>1 DEF ListsEachOnce
<1>8. ListInv'
  <2>1. ASSUME NEW i \in 1..Len(to_del')
        PROVE  cnt'[to_del'[i]] = 0 /\ mem'[to_del'[i]] = "allocated"
               /\ to_del'[i] # destroy_task'
    <3>1. CASE i \in 1..Len(to_del)
      BY <1>3, <1>5, <3>1 DEF QueueInv, ListInv, Shutdown
    <3>2. CASE i \notin 1..Len(to_del)
      <4>1. i - Len(to_del) \in 1..Len(q) /\ to_del'[i] = q[i - Len(to_del)]
        BY <1>suffix, <3>2
      <4> QED
        BY <1>2, <1>6, <4>1 DEF Shutdown
    <3> QED
      BY <3>1, <3>2
  <2>2. ASSUME NEW i \in 1..Len(to_del'), NEW j \in 1..Len(to_del'),
               to_del'[i] = to_del'[j], i < j
        PROVE  FALSE
    <3>1. CASE j \in 1..Len(to_del)
      BY <1>3, <2>2, <3>1 DEF QueueInv, ListInv
    <3>2. CASE i \in 1..Len(to_del) /\ j \notin 1..Len(to_del)
      <4>1. j - Len(to_del) \in 1..Len(q) /\ to_del'[j] = q[j - Len(to_del)]
        BY <1>suffix, <3>2
      <4> QED
        BY <1>2, <1>3, <1>6, <2>2, <3>2, <4>1 DEF Linked
    <3>3. CASE i \notin 1..Len(to_del) /\ j \notin 1..Len(to_del)
      <4>1. i - Len(to_del) \in 1..Len(q) /\ to_del'[i] = q[i - Len(to_del)]
        BY <1>suffix, <3>3
      <4>2. j - Len(to_del) \in 1..Len(q) /\ to_del'[j] = q[j - Len(to_del)]
        BY <1>suffix, <3>3
      <4>3. i - Len(to_del) = j - Len(to_del)
        BY <1>7, <2>2, <4>1, <4>2
      <4> QED
        BY <1>2, <1>3, <2>2, <4>3
    <3> QED
      BY <1>2, <1>3, <2>2, <3>1, <3>2, <3>3
  <2>3. Len(to_del') \in Nat
    BY <1>2, <1>3
  <2> QED
    BY <2>1, <2>2, <2>3 DEF ListInv
<1>9. UncountedIsQueued'
  <2> SUFFICES ASSUME NEW o \in Obj, mem[o] = "allocated", cnt'[o] = 0
               PROVE  Linked(o)' \/ destroy_task = o
    BY DEF UncountedIsQueued, Shutdown
  <2>1. CASE cnt[o] = 0
    BY <1>2, <1>3, <2>1 DEF QueueInv, UncountedIsQueued, Linked
  <2>2. CASE cnt[o] # 0
    <3>1. o \in LastInMap
      BY <1>4, <2>2 DEF LastInMap, TypeOK
    <3>2. PICK i \in 1..Len(q) : q[i] = o
      BY <1>1, <3>1 DEF ListsEachOnce
    <3>3. Len(to_del) + i \in 1..Len(to_del') /\ to_del'[Len(to_del) + i] = o
      BY <1>2, <1>3, <3>2
    <3> QED
      BY <3>3 DEF Linked
  <2> QED
    BY <2>1, <2>2
<1> QED
  BY <1>5, <1>8, <1>9 DEF QueueInv, TaskInv, FreedUncounted, Shutdown, TypeOK

-----------------------------------------------------------------------------
AliveInv == CountInv /\ QueueInv

LEMMA AliveInit == Init => AliveInv
<1> SUFFICES ASSUME Init PROVE QueueInv
  BY CountInit DEF AliveInv
<1> QED
  BY DEF Init, QueueInv, ListInv, TaskInv, FreedUncounted, UncountedIsQueued

LEMMA AliveStep ==
  ASSUME HeldSource
  PROVE  AliveInv /\ [Next]_storageVars => AliveInv'
<1> SUFFICES ASSUME AliveInv, [Next]_storageVars PROVE QueueInv'
  BY CountStep DEF AliveInv
<1> USE DEF AliveInv, CountInv
<1>1. ASSUME NEW k \in Key, NEW o \in Obj, TryEmplace(k, o) PROVE QueueInv'
  <2>1. /\ mem[o] = "unused"
        /\ Acquire(o, 1)
        /\ mem' = [mem EXCEPT ![o] = "allocated"]
        /\ UNCHANGED <<to_del, destroy_task, to_erase>>
    BY <1>1 DEF TryEmplace, Allocate
  <2> QED
    BY <2>1, AcquireKeepsQueue, 1 \in Nat \ {0}
<1>2. ASSUME NEW k \in Key, NEW o \in Obj, NEW h \in Holder, Emplace(k, o, h)
      PROVE QueueInv'
  <2>1. /\ mem[o] = "unused"
        /\ Acquire(o, 2)
        /\ mem' = [mem EXCEPT ![o] = "allocated"]
        /\ UNCHANGED <<to_del, destroy_task, to_erase>>
    BY <1>2 DEF Emplace, Allocate
  <2> QED
    BY <2>1, AcquireKeepsQueue, 2 \in Nat \ {0}
<1>3. ASSUME NEW k \in Key, Erase(k) PROVE QueueInv'
  <2>1. m[k] \in Obj /\ k \in Refs(m[k])
    BY <1>3 DEF Erase, TypeOK, Refs
  <2>2. cnt[m[k]] > 0
    BY <2>1, RefsFinite DEF CountIsExact
  <2> QED
    BY <1>3, <2>1, <2>2, ReleaseKeepsQueue DEF Erase
<1>4. ASSUME NEW h \in Holder, DropPtr(h) PROVE QueueInv'
  <2>1. held[h] \in Obj /\ h \in Refs(held[h])
    BY <1>4 DEF DropPtr, TypeOK, Refs
  <2>2. cnt[held[h]] > 0
    BY <2>1, RefsFinite DEF CountIsExact
  <2> QED
    BY <1>4, <2>1, <2>2, ReleaseKeepsQueue DEF DropPtr
<1>5. ASSUME NEW o \in Obj, NEW h \in Holder, SourceGet(o, h) PROVE QueueInv'
  <2>1. /\ cnt[o] > 0
        /\ Acquire(o, 1)
        /\ mem' = [mem EXCEPT ![o] = "allocated"]
        /\ UNCHANGED <<to_del, destroy_task, to_erase>>
    BY <1>5 DEF SourceGet, TypeOK
  <2> QED
    BY <2>1, AcquireKeepsQueue, 1 \in Nat \ {0}
<1>6. ASSUME NEW o \in Obj, SourceClear(o) PROVE QueueInv'
  <2>1. PICK k \in Key :
          \/ m[k] = o /\ Release(o)
          \/ UNCHANGED <<m, cnt, to_del>>
    BY <1>6 DEF SourceClear
  <2>2. CASE m[k] = o /\ Release(o)
    <3>1. k \in Refs(o)
      BY <2>2 DEF Refs
    <3>2. cnt[o] > 0
      BY <3>1, RefsFinite DEF CountIsExact
    <3> QED
      BY <1>6, <2>2, <3>2, ReleaseKeepsQueue DEF SourceClear
  <2>3. CASE UNCHANGED <<m, cnt, to_del>>
    BY <1>6, <2>3 DEF SourceClear, QueueInv, ListInv, TaskInv, FreedUncounted,
                      UncountedIsQueued, Linked
  <2> QED
    BY <2>1, <2>2, <2>3
<1>7. CASE DestroyFinish
  BY <1>7 DEF DestroyFinish, QueueInv, ListInv, TaskInv, FreedUncounted,
              UncountedIsQueued, Linked
<1>8. CASE Tick
  BY <1>8, TickKeepsQueue
<1>9. CASE Shutdown
  BY <1>9, ShutdownKeepsQueue
<1>10. CASE UNCHANGED storageVars
  BY <1>10 DEF storageVars, QueueInv, ListInv, TaskInv, FreedUncounted,
               UncountedIsQueued, Linked
<1> QED
  BY <1>1, <1>2, <1>3, <1>4, <1>5, <1>6, <1>7, <1>8, <1>9, <1>10 DEF Next

LEMMA AliveInvariant ==
  ASSUME HeldSource
  PROVE  Spec => []AliveInv
BY AliveInit, AliveStep, PTL DEF Spec

\* What has a reference has a count, which rules out the other states.
LEMMA AliveIsSafe == AliveInv => ReferencedIsAlive
<1> SUFFICES ASSUME AliveInv, NEW o \in Obj, Refs(o) # {}
             PROVE  mem[o] = "allocated" /\ ~Linked(o) /\ destroy_task # o
  BY DEF ReferencedIsAlive
<1>1. cnt[o] # 0
  BY RefsFinite DEF AliveInv, CountInv, CountIsExact
<1> QED
  BY <1>1, NullAssumption DEF AliveInv, CountInv, UnusedUncounted, TypeOK,
     QueueInv, ListInv, TaskInv, FreedUncounted, Linked

\* What has none is counted as such, and queued.
LEMMA AliveForgetsNone == AliveInv => NoneForgotten
<1> SUFFICES ASSUME AliveInv, NEW o \in Obj, mem[o] = "allocated", Refs(o) = {}
             PROVE  Linked(o) \/ destroy_task = o
  BY DEF AliveInv, QueueInv, ListInv, NoneForgotten
<1>1. cnt[o] = 0
  BY RefsFinite DEF AliveInv, CountInv, CountIsExact
<1> QED
  BY <1>1 DEF AliveInv, QueueInv, UncountedIsQueued

\* For callers that respect the source's condition: what something refers to
\* is allocated, is in no list of condemned objects and is not being
\* destroyed.
THEOREM ReferencesAreSafe ==
  ASSUME HeldSource
  PROVE  Spec => []ReferencedIsAlive
BY AliveIsSafe, AliveInvariant, PTL

\* And what nothing refers to is on its way to being freed, once.
THEOREM NothingIsForgotten ==
  ASSUME HeldSource
  PROVE  Spec => []NoneForgotten
BY AliveForgetsNone, AliveInvariant, PTL

\* The step at which shutdown() returns leaves the waiting list empty, and
\* whatever has no pointer any more would be in that list.
LEMMA DrainStep ==
  ASSUME AliveInv, AliveInv', [Next]_storageVars,
         shutdown' = "returned", shutdown # "returned",
         NEW o \in Obj, mem'[o] = "allocated", Refs(o)' = {}
  PROVE  destroy_task' = o
<1>1. to_del' = <<>>
  <2>1. CASE Tick
    BY <2>1 DEF Tick, TickStart, TickSignal, TickRest
  <2>2. CASE Shutdown
    BY <2>2 DEF Shutdown
  <2>3. Tick \/ Shutdown
    BY DEF Next, storageVars, TryEmplace, Emplace, Erase, DropPtr, SourceGet,
           SourceClear, DestroyFinish
  <2> QED
    BY <2>1, <2>2, <2>3
<1>2. cnt'[o] = 0
  <2>1. Cardinality(Refs(o)') = 0
    BY FS_EmptySet
  <2> QED
    BY <2>1 DEF AliveInv, CountInv, CountIsExact
<1>3. ~Linked(o)'
  BY <1>1 DEF Linked
<1> QED
  BY <1>2, <1>3 DEF AliveInv, QueueInv, UncountedIsQueued

\* When shutdown() returns nothing waits for its destroy task any more.
THEOREM ShutdownLeavesNoneWaiting ==
  ASSUME HeldSource
  PROVE  Spec => ShutdownDrains
<1>1. AliveInv /\ AliveInv' /\ [Next]_storageVars =>
        [shutdown' = "returned" /\ shutdown # "returned" =>
           \A o \in Obj : mem'[o] = "allocated" /\ Refs(o)' = {} =>
               destroy_task' = o]_storageVars
  BY DrainStep
<1> QED
  BY <1>1, AliveInvariant, PTL DEF Spec, ShutdownDrains

-----------------------------------------------------------------------------
\* The refinement: every step of the storage is a step, or a stutter, of
\* ObjectLifetime.

\* An object's phase follows from its memory, its references and the task.
LEMMA PhaseCases ==
  ASSUME AliveInv, NEW o \in Obj
  PROVE  /\ PhaseOf(o) = "unborn" <=> mem[o] = "unused"
         /\ PhaseOf(o) = "alive" <=> Refs(o) # {}
         /\ PhaseOf(o) = "dying" <=> destroy_task = o
         /\ PhaseOf(o) = "dead" <=> mem[o] = "freed"
         /\ PhaseOf(o) = "condemned" <=>
              mem[o] = "allocated" /\ Refs(o) = {} /\ destroy_task # o
         /\ mem[o] # "allocated" => Refs(o) = {} /\ destroy_task # o
         /\ destroy_task = o => Refs(o) = {}
<1>1. cnt[o] = 0 <=> Refs(o) = {}
  BY RefsFinite DEF AliveInv, CountInv, CountIsExact
<1>2. mem[o] # "allocated" => cnt[o] = 0
  BY DEF AliveInv, CountInv, TypeOK, UnusedUncounted, QueueInv, FreedUncounted
<1>3. destroy_task = o => cnt[o] = 0 /\ mem[o] = "allocated"
  BY NullAssumption DEF AliveInv, QueueInv, TaskInv
<1>4. mem[o] \in {"unused", "allocated", "freed"}
  BY DEF AliveInv, CountInv, TypeOK
<1> QED
  BY <1>1, <1>2, <1>3, <1>4 DEF PhaseOf

\* The facts of PhaseCases as a state predicate, to use it in both states of
\* a step.
PhaseInv ==
    \A o \in Obj :
        /\ PhaseOf(o) = "unborn" <=> mem[o] = "unused"
        /\ PhaseOf(o) = "alive" <=> Refs(o) # {}
        /\ PhaseOf(o) = "dying" <=> destroy_task = o
        /\ PhaseOf(o) = "dead" <=> mem[o] = "freed"
        /\ PhaseOf(o) = "condemned" <=>
             mem[o] = "allocated" /\ Refs(o) = {} /\ destroy_task # o
        /\ mem[o] # "allocated" => Refs(o) = {} /\ destroy_task # o
        /\ destroy_task = o => Refs(o) = {}
        /\ PhaseOf(o) \in Lifetime!Phases

LEMMA PhaseInvariant ==
  ASSUME HeldSource
  PROVE  Spec => []PhaseInv
<1>1. AliveInv => PhaseInv
  <2> SUFFICES ASSUME AliveInv, NEW o \in Obj PROVE PhaseOf(o) \in Lifetime!Phases
    BY PhaseCases DEF PhaseInv
  <2> QED
    BY DEF PhaseOf, Lifetime!Phases, AliveInv, CountInv, TypeOK
<1> QED
  BY <1>1, AliveInvariant, PTL

\* Losing a set of references, and nothing else, is Forget.
LEMMA ForgetStep ==
  ASSUME PhaseInv, PhaseInv', UNCHANGED <<mem, destroy_task>>,
         NEW R \in SUBSET (Key \cup Holder),
         \A o \in Obj : Refs(o)' = Refs(o) \ R
  PROVE  Lifetime!Next
<1> SUFFICES Lifetime!Forget(R)
  BY DEF Lifetime!Next
<1>1. ASSUME NEW o \in Obj
      PROVE  PhaseOf(o)' = IF PhaseOf(o) = "alive" /\ Refs(o) \subseteq R
                           THEN "condemned" ELSE PhaseOf(o)
  <2>1. Refs(o)' = {} <=> Refs(o) \subseteq R
    OBVIOUS
  <2>2. CASE Refs(o) = {}
    BY <2>1, <2>2 DEF PhaseInv, Lifetime!Phases
  <2>3. CASE Refs(o) # {} /\ Refs(o)' = {}
    BY <2>1, <2>3 DEF PhaseInv, Lifetime!Phases
  <2>4. CASE Refs(o) # {} /\ Refs(o)' # {}
    BY <2>1, <2>4 DEF PhaseInv, Lifetime!Phases
  <2> QED
    BY <2>2, <2>3, <2>4
<1> QED
  BY <1>1 DEF Lifetime!Forget

\* An object that comes to be with the references R.
LEMMA CreateStep ==
  ASSUME PhaseInv, PhaseInv', NEW o \in Obj, NEW R \in SUBSET (Key \cup Holder),
         R # {}, mem[o] = "unused", UNCHANGED destroy_task,
         Refs(o)' = R,
         \A p \in Obj \ {o} : Refs(p)' = Refs(p) /\ mem'[p] = mem[p]
  PROVE  Lifetime!Next
<1> SUFFICES Lifetime!Create(o, R)
  BY DEF Lifetime!Next
<1>1. PhaseOf(o) = "unborn" /\ PhaseOf(o)' = "alive"
  BY DEF PhaseInv
<1>2. \A p \in Obj \ {o} : PhaseOf(p)' = PhaseOf(p)
  BY DEF PhaseOf, PhaseInv, Lifetime!Phases
<1> QED
  BY <1>1, <1>2 DEF Lifetime!Create

\* One more reference to an object that has some.
LEMMA ReferStep ==
  ASSUME PhaseInv, PhaseInv', NEW o \in Obj, NEW r \in Key \cup Holder,
         Refs(o) # {}, UNCHANGED <<mem, destroy_task>>,
         Refs(o)' = Refs(o) \cup {r},
         \A p \in Obj \ {o} : Refs(p)' = Refs(p)
  PROVE  Lifetime!Next
<1> SUFFICES Lifetime!Refer(o, r)
  BY DEF Lifetime!Next
<1>1. PhaseOf(o) = "alive" /\ PhaseOf(o)' = "alive"
  BY DEF PhaseInv
<1>2. \A p \in Obj \ {o} : PhaseOf(p)' = PhaseOf(p)
  BY DEF PhaseInv, Lifetime!Phases
<1> QED
  BY <1>1, <1>2 DEF Lifetime!Refer

\* A tick reclaims the object whose destroy task ended and starts the next.
LEMMA TickTurns ==
  ASSUME AliveInv, AliveInv', PhaseInv, PhaseInv', Tick
  PROVE  Lifetime!Next
<1> USE NullAssumption
<1> DEFINE Ended == {o \in Obj : o = to_erase}
           Begun == {o \in Obj : o = destroy_task' /\ o # destroy_task}
<1> SUFFICES Lifetime!Turn(Ended, Begun)
  BY DEF Lifetime!Next
<1>1. /\ to_erase # Null => to_erase = destroy_task
      /\ destroy_task \in Obj \cup {Null}
      /\ destroy_task' \in Obj \cup {Null}
      /\ to_del \in Seq(Obj)
  BY DEF AliveInv, CountInv, TypeOK, QueueInv, TaskInv
<1>2. \A o \in Obj : mem'[o] = IF o \in Ended THEN "freed" ELSE mem[o]
  BY DEF Tick, TickErase, AliveInv, CountInv, TypeOK
<1>3. \A o \in Obj : Refs(o)' = Refs(o)
  BY DEF Tick, Refs
<1>4. Lifetime!Dying = {o \in Obj : o = destroy_task}
  BY DEF Lifetime!Dying, PhaseInv
<1>5. Ended \subseteq Lifetime!Dying
  BY <1>1, <1>4
<1>6. destroy_task' # destroy_task => destroy_task' = Null \/ TickStart
  BY <1>1 DEF Tick, TickSignal, TickRest, TaskAfterErase
<1>7. \A o \in Begun : PhaseOf(o) = "condemned" /\ Lifetime!Dying = Ended
  <2> SUFFICES ASSUME NEW o \in Begun
               PROVE  PhaseOf(o) = "condemned" /\ Lifetime!Dying = Ended
    OBVIOUS
  <2>1. TickStart
    BY <1>6
  <2>2. o = to_del[1] /\ 1 \in 1..Len(to_del)
    BY <1>1, <2>1 DEF TickStart
  <2>3. mem[o] = "allocated" /\ cnt[o] = 0
    BY <2>2 DEF AliveInv, QueueInv, ListInv
  <2>4. PhaseOf(o) = "condemned"
    BY <2>3 DEF PhaseOf
  <2>5. destroy_task = to_erase
    BY <1>1, <2>1 DEF TickStart, TaskAfterErase
  <2> QED
    BY <1>4, <2>4, <2>5
<1>8. \A o, p \in Begun : o = p
  OBVIOUS
<1>9. ASSUME NEW o \in Obj
      PROVE  PhaseOf(o)' = IF o \in Ended THEN "dead"
                           ELSE IF o \in Begun THEN "dying" ELSE PhaseOf(o)
  <2>1. CASE o \in Ended
    BY <1>2, <2>1 DEF PhaseInv
  <2>2. CASE o \in Begun
    BY <1>5, <1>4, <2>2 DEF PhaseInv
  <2>3. CASE o \notin Ended /\ o \notin Begun
    <3>1. mem'[o] = mem[o] /\ Refs(o)' = Refs(o)
      BY <1>2, <1>3, <2>3
    <3>2. destroy_task' = o <=> destroy_task = o
      <4>1. CASE destroy_task = o
        <5>1. to_erase = Null
          BY <1>1, <2>3, <4>1
        <5> QED
          BY <4>1, <5>1 DEF Tick, TickStart, TickSignal, TickRest, TaskAfterErase
      <4>2. CASE destroy_task # o
        BY <2>3, <4>2
      <4> QED
        BY <4>1, <4>2
    <3>3. PhaseOf(o)' = PhaseOf(o)
      BY <3>1, <3>2 DEF PhaseInv, Lifetime!Phases
    <3> QED
      BY <2>3, <3>3
  <2> QED
    BY <2>1, <2>2, <2>3
<1> QED
  BY <1>3, <1>5, <1>7, <1>8, <1>9 DEF Lifetime!Turn

LEMMA StorageStep ==
  ASSUME HeldSource
  PROVE  AliveInv /\ AliveInv' /\ PhaseInv /\ PhaseInv' /\ [Next]_storageVars
           => [Lifetime!Next]_(Lifetime!lifetimeVars)
<1> SUFFICES ASSUME AliveInv, AliveInv', PhaseInv, PhaseInv', [Next]_storageVars
             PROVE  [Lifetime!Next]_(Lifetime!lifetimeVars)
  OBVIOUS
<1>0. TypeOK
  BY DEF AliveInv, CountInv
<1>1. ASSUME NEW k \in Key, NEW o \in Obj, TryEmplace(k, o) PROVE Lifetime!Next
  <2>1. /\ Refs(o) = {}
        /\ Refs(o)' = Refs(o) \cup {k}
        /\ \A p \in Obj \ {o} : Refs(p)' = Refs(p) /\ mem'[p] = mem[p]
        /\ mem[o] = "unused" /\ UNCHANGED destroy_task
    BY <1>0, <1>1, EntrySet DEF TryEmplace, Allocate, PhaseInv, TypeOK
  <2> QED
    BY <2>1, CreateStep
<1>2. ASSUME NEW k \in Key, NEW o \in Obj, NEW h \in Holder, Emplace(k, o, h)
      PROVE Lifetime!Next
  <2>1. Refs(o) = {} /\ mem[o] = "unused" /\ UNCHANGED destroy_task
    BY <1>2 DEF Emplace, Allocate, PhaseInv
  <2>2. Refs(o)' = {k, h}
    BY <1>0, <1>2, <2>1, HolderAssumption DEF Emplace, Allocate, TypeOK, Refs
  <2>3. \A p \in Obj \ {o} : Refs(p)' = Refs(p) /\ mem'[p] = mem[p]
    <3>1. ASSUME NEW p \in Obj \ {o} PROVE mem'[p] = mem[p]
      BY <1>0, <1>2 DEF Emplace, Allocate, TypeOK
    <3>2. ASSUME NEW p \in Obj \ {o} PROVE Refs(p)' = Refs(p)
      BY <1>0, <1>2, NullAssumption DEF Emplace, Allocate, TypeOK, Refs
    <3> QED
      BY <3>1, <3>2
  <2> QED
    BY <2>1, <2>2, <2>3, CreateStep
<1>3. ASSUME NEW k \in Key, Erase(k) PROVE Lifetime!Next
  <2>1. \A o \in Obj : Refs(o)' = Refs(o) \ {k}
    BY <1>0, <1>3, NullAssumption, HolderAssumption DEF Erase, Refs, TypeOK
  <2> QED
    BY <1>3, <2>1, ForgetStep DEF Erase
<1>4. ASSUME NEW h \in Holder, DropPtr(h) PROVE Lifetime!Next
  <2>1. \A o \in Obj : Refs(o)' = Refs(o) \ {h}
    BY <1>0, <1>4, NullAssumption, HolderAssumption DEF DropPtr, Refs, TypeOK
  <2> QED
    BY <1>4, <2>1, ForgetStep DEF DropPtr
<1>5. ASSUME NEW o \in Obj, NEW h \in Holder, SourceGet(o, h) PROVE Lifetime!Next
  <2>1. /\ Refs(o)' = Refs(o) \cup {h}
        /\ \A p \in Obj \ {o} : Refs(p)' = Refs(p)
    BY <1>0, <1>5, HolderSet DEF SourceGet
  <2>2. Refs(o) # {}
    BY <1>5, RefsFinite DEF SourceGet, AliveInv, CountInv, CountIsExact
  <2> QED
    BY <1>5, <2>1, <2>2, ReferStep DEF SourceGet
<1>6. ASSUME NEW o \in Obj, SourceClear(o)
      PROVE [Lifetime!Next]_(Lifetime!lifetimeVars)
  <2>1. PICK k \in Key :
          \/ m[k] = o /\ m' = [m EXCEPT ![k] = Null]
          \/ UNCHANGED <<m, cnt>>
    BY <1>6 DEF SourceClear
  <2>2. CASE m[k] = o /\ m' = [m EXCEPT ![k] = Null]
    <3>1. \A p \in Obj : Refs(p)' = Refs(p) \ {k}
      BY <1>0, <1>6, <2>2, NullAssumption, HolderAssumption
         DEF SourceClear, Refs, TypeOK
    <3> QED
      BY <1>6, <3>1, ForgetStep DEF SourceClear
  <2>3. CASE UNCHANGED <<m, cnt>>
    BY <1>6, <2>3 DEF SourceClear, Lifetime!lifetimeVars, Refs, PhaseOf
  <2> QED
    BY <2>1, <2>2, <2>3
<1>7. CASE DestroyFinish
  BY <1>7 DEF DestroyFinish, Lifetime!lifetimeVars, Refs, PhaseOf
<1>8. CASE Tick
  BY <1>8, TickTurns
<1>9. CASE Shutdown
  <2>1. \A o \in Obj : Refs(o)' = Refs(o) \ Key
    BY <1>9, NullAssumption, HolderAssumption DEF Shutdown, Refs
  <2> QED
    BY <1>9, <2>1, ForgetStep DEF Shutdown
<1>10. CASE UNCHANGED storageVars
  BY <1>10 DEF storageVars, Lifetime!lifetimeVars, Refs, PhaseOf
<1> QED
  BY <1>1, <1>2, <1>3, <1>4, <1>5, <1>6, <1>7, <1>8, <1>9, <1>10 DEF Next

\* For callers that respect the source's condition the storage keeps the
\* promise of ObjectLifetime (async_storage.hpp:13-19).
THEOREM ImplementsLifetime ==
  ASSUME HeldSource
  PROVE  Spec => LifetimeSpec
<1>1. Init => Lifetime!Init
  BY NullAssumption DEF Init, Lifetime!Init, Refs, PhaseOf
<1> QED
  BY <1>1, StorageStep, AliveInvariant, PhaseInvariant, PTL
     DEF Spec, LifetimeSpec, Lifetime!Spec
=============================================================================
