--------------------------- MODULE FoldersProofs ---------------------------
(***************************************************************************)
(* Proofs about Folders: if the hub is settled and no mkdir of a           *)
(* folder_clear fails, the map of folders and the disk agree, and every    *)
(* upload is shut down once, whichever requests overlap.                   *)
(***************************************************************************)
EXTENDS FoldersProps, SequenceTheorems, TLAPS

StorageP == INSTANCE AsyncStorageProofs WITH
    Key <- Id, Obj <- Slot, Holder <- Req, HeldSource <- TRUE

\* The assumptions of AsyncStorage hold here.
LEMMA StorageAssumptions ==
  /\ TRUE \in BOOLEAN
  /\ Null \notin Slot
  /\ StorageP!IsFiniteSet(Req) /\ Req \cap Id = {}
  /\ Id \subseteq Nat /\ StorageP!IsFiniteSet(Id)
<1>1. \A S : IsFiniteSet(S) => StorageP!IsFiniteSet(S)
  BY DEF IsFiniteSet, StorageP!IsFiniteSet
<1> QED
  BY <1>1, IdAssumption, ReqAssumption, NullAssumption

-----------------------------------------------------------------------------
\* The async_map, as far as folders see it.
Referred ==
    /\ m \in [Id -> Slot \cup {Null}]
    /\ held \in [Req -> Slot \cup {Null}]
    /\ mem \in [Slot -> {"unused", "allocated", "freed"}]
    /\ destroy_task \in Slot \cup {Null} /\ to_erase \in Slot \cup {Null}
    /\ spinning \in BOOLEAN
    /\ \A id \in Id : m[id] # Null =>
         mem[m[id]] = "allocated" /\ m[id] # destroy_task /\ m[id] # to_erase
    /\ \A r \in Req : held[r] # Null =>
         mem[held[r]] = "allocated" /\ held[r] # destroy_task /\ held[r] # to_erase
    /\ \A id, j \in Id : m[id] # Null /\ m[id] = m[j] => id = j
    /\ to_erase # Null => to_erase = destroy_task
    /\ destroy_task # Null => mem[destroy_task] = "allocated"
    /\ \A i, j \in 1..Len(to_del) : to_del[i] = to_del[j] => i = j

LEMMA StorageRefers == StorageP!AliveInv => Referred
<1> SUFFICES ASSUME StorageP!AliveInv PROVE Referred
  OBVIOUS
<1>1. StorageP!ReferencedIsAlive
  BY StorageP!AliveIsSafe, StorageAssumptions
<1>2. /\ m \in [Id -> Slot \cup {Null}]
      /\ held \in [Req -> Slot \cup {Null}]
      /\ mem \in [Slot -> {"unused", "allocated", "freed"}]
      /\ destroy_task \in Slot \cup {Null} /\ to_erase \in Slot \cup {Null}
      /\ spinning \in BOOLEAN
  BY DEF StorageP!AliveInv, StorageP!CountInv, StorageP!TypeOK
<1>3. /\ to_erase # Null => to_erase = destroy_task
      /\ destroy_task # Null => mem[destroy_task] = "allocated"
      /\ \A i, j \in 1..Len(to_del) : to_del[i] = to_del[j] => i = j
  BY DEF StorageP!AliveInv, StorageP!QueueInv, StorageP!ListInv, StorageP!TaskInv
<1>4. \A id, j \in Id : m[id] # Null /\ m[id] = m[j] => id = j
  BY DEF StorageP!AliveInv, StorageP!CountInv, StorageP!OneEntry
<1>5. ASSUME NEW id \in Id, m[id] # Null
      PROVE  mem[m[id]] = "allocated" /\ m[id] # destroy_task /\ m[id] # to_erase
  <2>1. id \in StorageP!Refs(m[id]) /\ m[id] \in Slot
    BY <1>2, <1>5 DEF StorageP!Refs
  <2>2. mem[m[id]] = "allocated" /\ m[id] # destroy_task
    BY <1>1, <2>1 DEF StorageP!ReferencedIsAlive
  <2> QED
    BY <1>3, <1>5, <2>2
<1>6. ASSUME NEW r \in Req, held[r] # Null
      PROVE  mem[held[r]] = "allocated" /\ held[r] # destroy_task /\ held[r] # to_erase
  <2>1. r \in StorageP!Refs(held[r]) /\ held[r] \in Slot
    BY <1>2, <1>6 DEF StorageP!Refs
  <2>2. mem[held[r]] = "allocated" /\ held[r] # destroy_task
    BY <1>1, <2>1 DEF StorageP!ReferencedIsAlive
  <2> QED
    BY <1>3, <1>6, <2>2
<1> QED
  BY <1>2, <1>3, <1>4, <1>5, <1>6 DEF Referred

\* src.get() and src.clear() of a slot that has its entry: the count of
\* references stays right although the two are not one step of the async_map.
LEMMA GetAndClearKeeps ==
  ASSUME StorageP!AliveInv, NEW r \in Req, NEW s \in Slot, Live(s), GetAndClear(r, s)
  PROVE  StorageP!AliveInv'
<1> USE DEF StorageP!AliveInv, StorageP!CountInv
<1>0. /\ m \in [Id -> Slot \cup {Null}]
      /\ held \in [Req -> Slot \cup {Null}]
      /\ cnt \in [Slot -> Nat]
      /\ mem \in [Slot -> {"unused", "allocated", "freed"}]
      /\ StorageP!TypeOK /\ StorageP!CountIsExact
  BY DEF StorageP!TypeOK
<1>1. PICK id \in Id : m[id] = s
  BY DEF Live
<1>2. \A j \in Id : m[j] = s => j = id
  BY <1>1, StorageAssumptions DEF StorageP!OneEntry
<1>3. /\ held[r] = Null /\ held' = [held EXCEPT ![r] = s]
      /\ UNCHANGED <<mem, to_del, destroy_task, to_erase, shutdown>>
  BY DEF GetAndClear
<1>4. id \in StorageP!Refs(s) /\ r \notin StorageP!Refs(s) /\ r # id
  BY <1>1, <1>3, StorageAssumptions DEF StorageP!Refs
<1>5. cnt[s] > 0 /\ mem[s] = "allocated"
  <2>1. cnt[s] # 0
    BY <1>0, <1>4, StorageP!RefsFinite, StorageAssumptions DEF StorageP!CountIsExact
  <2> QED
    BY <1>0, <2>1 DEF StorageP!UnusedUncounted, StorageP!QueueInv, StorageP!FreedUncounted
<1>6. CASE m' = [j \in Id |-> IF m[j] = s THEN Null ELSE m[j]] /\ UNCHANGED <<cnt, spinning>>
  <2>1. m' = [m EXCEPT ![id] = Null]
    BY <1>0, <1>1, <1>2, <1>6
  <2>2. StorageP!Refs(s)' = (StorageP!Refs(s) \ {id}) \cup {r}
    BY <1>0, <1>1, <1>3, <2>1, StorageAssumptions DEF StorageP!Refs
  <2>3. \A p \in Slot \ {s} : StorageP!Refs(p)' = StorageP!Refs(p)
    BY <1>0, <1>1, <1>3, <2>1, StorageAssumptions DEF StorageP!Refs
  <2>4. StorageP!Cardinality(StorageP!Refs(s)') = cnt[s]
    <3>1. StorageP!Cardinality((StorageP!Refs(s) \ {id}) \cup {r})
            = StorageP!Cardinality(StorageP!Refs(s))
      BY <1>4, StorageP!MoveRef, StorageAssumptions
    <3> QED
      BY <1>0, <2>2, <3>1 DEF StorageP!CountIsExact
  <2>5. StorageP!CountIsExact'
    BY <1>0, <1>6, <2>3, <2>4 DEF StorageP!CountIsExact
  <2>6. StorageP!TypeOK' /\ StorageP!OneEntry' /\ StorageP!UnusedUncounted'
    BY <1>0, <1>3, <1>6, <2>1 DEF StorageP!TypeOK, StorageP!OneEntry, StorageP!UnusedUncounted
  <2>7. StorageP!QueueInv'
    BY <1>3, <1>6 DEF StorageP!QueueInv, StorageP!ListInv, StorageP!TaskInv,
       StorageP!FreedUncounted, StorageP!UncountedIsQueued, StorageP!Linked
  <2> QED
    BY <2>5, <2>6, <2>7
<1>7. CASE UNCHANGED m /\ cnt' = [cnt EXCEPT ![s] = @ + 1] /\ spinning' \in BOOLEAN
  <2>1. /\ r \notin StorageP!Refs(s)
        /\ StorageP!Refs(s)' = StorageP!Refs(s) \cup {r}
        /\ \A p \in Slot \ {s} : StorageP!Refs(p)' = StorageP!Refs(p)
    BY <1>0, <1>3, <1>7, StorageP!HolderSet, StorageAssumptions
  <2>2. StorageP!Acquire(s, 1)
    BY <1>7 DEF StorageP!Acquire
  <2>3. StorageP!CountIsExact'
    BY <1>0, <2>1, <2>2, StorageP!GainKeepsCount, StorageAssumptions
  <2>4. StorageP!TypeOK' /\ StorageP!OneEntry' /\ StorageP!UnusedUncounted'
    BY <1>0, <1>3, <1>5, <1>7 DEF StorageP!TypeOK, StorageP!OneEntry, StorageP!UnusedUncounted
  <2>5. mem' = [mem EXCEPT ![s] = "allocated"]
    BY <1>0, <1>3, <1>5
  <2>6. StorageP!QueueInv'
    BY <1>0, <1>3, <1>5, <2>2, <2>5, StorageP!AcquireKeepsQueue, StorageAssumptions, 1 \in Nat \ {0}
  <2> QED
    BY <2>3, <2>4, <2>6
<1> QED
  BY <1>0, <1>1, <1>6, <1>7, StorageAssumptions DEF GetAndClear, StorageP!TypeOK

-----------------------------------------------------------------------------
\* The inductive invariant.  A hub that is settled keeps requests that use a
\* folder and requests that remove it apart, although both wait in between.

Using == {"create", "start", "end"}
Removing == {"delete", "clear"}
Walks == {"shutdown", "close", "unlink", "shut"}

\* a folder_delete that shuts down uploads
Walking(r) == req[r].kind = "delete" /\ req[r].stage \in Walks

\* the upload has no entry and its file is closed
Shut(s) == ~Live(s) /\ ~slots[s].fh /\ ~slots[s].open

\* what belongs to the stage a request is in
Proper(r) ==
    /\ req[r].kind = "none" <=> req[r].stage = "free"
    /\ req[r].stage # "free" => phase = "ready" /\ req[r].name \in Name
    /\ req[r].kind = "create" => req[r].stage \in {"mkdir", "emplace", "answer"}
    /\ req[r].kind = "delete" => req[r].stage \in Walks \cup {"rm", "erase", "answer"}
    /\ req[r].kind = "clear" => req[r].stage \in {"rm", "remake", "mkdir", "answer"}
    /\ req[r].kind \in Removing => req[r].folder \in Folder
    /\ req[r].kind = "start" =>
         /\ req[r].stage \in {"open", "answer"}
         /\ req[r].slot \in Slot
         /\ held[r] = req[r].slot
         /\ slots[req[r].slot].name = req[r].name
    /\ req[r].kind = "end" =>
         /\ req[r].stage \in {"close", "answer"}
         /\ req[r].slot \in Slot /\ req[r].id \in Id
         /\ mem[req[r].slot] # "unused"
         /\ slots[req[r].slot].name = req[r].name
    /\ req[r].kind = "delete" /\ ~Walking(r) => req[r].slot = Null
    /\ (req[r].kind = "start") \/ (Walking(r) /\ req[r].stage # "shutdown") \/ held[r] = Null

Exclusive ==
    /\ \A r, x \in Req : req[r].kind \in Using /\ req[x].kind \in Removing =>
         req[r].name # req[x].name
    /\ \A r, x \in Req : r # x /\ Walking(r) /\ req[x].kind \in Removing =>
         req[r].name # req[x].name
    /\ \A r \in Req, s \in Slot : req[r].kind = "clear" /\ mem[s] = "allocated" =>
         slots[s].name # req[r].name

\* The lists of dependents: who is in them, and which entries they belong to.
Listed(s) == \E i \in 1..Len(deps[slots[s].folder]) : deps[slots[s].folder][i] = s

Owned ==
    /\ \A s \in Slot : mem[s] = "allocated" =>
         slots[s].folder \in Folder /\ slots[s].name \in Name /\ Listed(s)
    /\ \A f \in Folder : \A i \in 1..Len(deps[f]) :
         mem[deps[f][i]] = "allocated" /\ slots[deps[f][i]].folder = f
    /\ \A f \in Folder : \A i, j \in 1..Len(deps[f]) : deps[f][i] = deps[f][j] => i = j

Entries ==
    /\ \A s \in Slot, n \in Name : mem[s] = "allocated" /\ flds[n] = slots[s].folder =>
         n = slots[s].name
    /\ \A n, k \in Name : flds[n] # Null /\ flds[n] = flds[k] => n = k
    /\ \A s \in Slot : Live(s) => flds[slots[s].name] = slots[s].folder

\* The files: what a slot believes and what there is.
Filed(s) ==
    mem[s] = "allocated" /\ s # to_erase =>
        /\ slots[s].open => slots[s].fh
        /\ slots[s].fh => s \in files /\ (slots[s].open \/ ~Live(s))

\* The walk over the dependents: behind it they are shut, before it alive.
Position(r, i) ==
    LET q == deps[req[r].folder] IN
    /\ q[i] = req[r].slot
    /\ \A j \in 1..Len(q) : (j < i => Shut(q[j])) /\ (i < j => Live(q[j]))

Walk(r) ==
    /\ req[r].slot \in Slot
    /\ slots[req[r].slot].name = req[r].name
    /\ flds[req[r].name] = req[r].folder
    /\ \E i \in 1..Len(deps[req[r].folder]) : Position(r, i)
    /\ req[r].stage = "shutdown" => Live(req[r].slot)
    /\ req[r].stage # "shutdown" =>
         held[r] = req[r].slot /\ (spinning \/ ~Live(req[r].slot))
    /\ req[r].stage = "close" => slots[req[r].slot].fh /\ slots[req[r].slot].open
    /\ req[r].stage = "unlink" =>
         slots[req[r].slot].fh /\ ~slots[req[r].slot].open /\ req[r].slot \in files
    /\ req[r].stage = "shut" =>
         ~slots[req[r].slot].open /\ (req[r].ok => ~slots[req[r].slot].fh)

\* What a folder_delete finds of its folder's uploads.
Deleted(r) ==
    req[r].kind = "delete" =>
        \A s \in Slot : mem[s] = "allocated" /\ slots[s].name = req[r].name =>
            /\ slots[s].folder = req[r].folder
            /\ req[r].stage \in {"rm", "erase"} => Shut(s)

\* The iterator of a folder_delete or folder_clear.
Entered(r) ==
    req[r].kind \in Removing =>
        /\ req[r].stage = "rm" => flds[req[r].name] \in {Null, req[r].folder}
        /\ req[r].stage \in {"erase", "remake"} => flds[req[r].name] = req[r].folder

Matched(n) ==
    /\ phase = "access" => flds[n] = Null
    /\ phase = "loading" => flds[n] = Null \/ n \in disk
    /\ phase = "ready" =>
         /\ flds[n] = Null =>
              Removers(n) = {} /\ IF n \in disk THEN One(Makers(n)) ELSE Makers(n) = {}
         /\ flds[n] # Null =>
              Makers(n) = {} /\ IF n \in disk THEN Removers(n) = {} ELSE One(Removers(n))

Inv ==
    /\ StorageP!AliveInv /\ OwnTypeOK /\ Exclusive /\ Owned /\ Entries
    /\ \A s \in Slot : Filed(s)
    /\ \A r \in Req : Proper(r) /\ Deleted(r) /\ Entered(r) /\ (Walking(r) => Walk(r))
    /\ \A n \in Name : Matched(n)

\* It is the correctness that the run checks.
LEMMA InvMatches == Inv => MapMatchesDisk
<1> SUFFICES ASSUME Inv, phase = "ready", NEW n \in Name
             PROVE  /\ flds[n] = Null =>
                         Removers(n) = {} /\ IF n \in disk THEN One(Makers(n)) ELSE Makers(n) = {}
                    /\ flds[n] # Null =>
                         Makers(n) = {} /\ IF n \in disk THEN Removers(n) = {} ELSE One(Removers(n))
                    /\ \A r \in Iterating(n) : flds[n] = req[r].folder
  BY DEF MapMatchesDisk
<1>1. ASSUME NEW r \in Iterating(n) PROVE flds[n] = req[r].folder
  BY <1>1 DEF Inv, Proper, Walking, Walks, Walk, Entered, Iterating, Removing
<1> QED
  BY <1>1 DEF Inv, Matched

LEMMA InvOutlives == Inv => UploadsOutliveWalk
<1> SUFFICES ASSUME Inv PROVE UploadsOutliveWalk
  OBVIOUS
<1>0. Referred
  BY StorageRefers DEF Inv
<1>1. ASSUME NEW r \in Req, req[r].kind = "delete", req[r].slot # Null
      PROVE  /\ mem[req[r].slot] = "allocated"
             /\ \E i \in 1..Len(deps[req[r].folder]) : deps[req[r].folder][i] = req[r].slot
             /\ req[r].stage = "close" => slots[req[r].slot].open
  <2>1. Walking(r) /\ Walk(r) /\ req[r].folder \in Folder
    BY <1>1 DEF Inv, Proper, Removing
  <2>2. PICK i \in 1..Len(deps[req[r].folder]) : deps[req[r].folder][i] = req[r].slot
    BY <2>1 DEF Walk, Position
  <2> QED
    BY <2>1, <2>2 DEF Inv, Owned, Walk
<1>2. ASSUME destroy_task # Null, to_erase = Null, slots[destroy_task].fh
      PROVE  slots[destroy_task].open \/ destroy_task \in files
  <2>1. destroy_task \in Slot /\ mem[destroy_task] = "allocated" /\ Filed(destroy_task)
    BY <1>0, <1>2 DEF Referred, Inv
  <2> QED
    BY <1>2, <2>1 DEF Filed
<1> QED
  BY <1>1, <1>2 DEF UploadsOutliveWalk

LEMMA InitInv == Init => Inv
<1> SUFFICES ASSUME Init PROVE Inv
  OBVIOUS
<1>1. StorageP!AliveInv
  <2>1. StorageP!Init
    BY DEF Init, Transfers!Init, StorageP!Init
  <2> QED
    BY <2>1, StorageP!AliveInit, StorageAssumptions
<1>2. Free \in Request /\ Unused \in Members
  BY DEF Free, Request, Unused, Members
<1>3. OwnTypeOK
  BY <1>2 DEF Init, OwnTypeOK
<1>4. ASSUME NEW r \in Req
      PROVE  Proper(r) /\ Deleted(r) /\ Entered(r) /\ ~Walking(r)
  BY <1>4 DEF Init, Transfers!Init, Free, Proper, Deleted, Entered, Walking, Removing
<1>5. Exclusive /\ Owned /\ Entries /\ \A s \in Slot : Filed(s)
  BY NullAssumption
  DEF Init, Transfers!Init, Free, Exclusive, Owned, Entries, Filed, Live, Walking, Using,
      Removing
<1>6. \A n \in Name : Matched(n)
  BY DEF Init, Matched
<1> QED
  BY <1>1, <1>3, <1>4, <1>5, <1>6 DEF Inv

-----------------------------------------------------------------------------
\* The async_map: a step of Folders is one of its operations, none, or the
\* get() and clear() of an upload that is shut down.
LEMMA StorageKept == Inv /\ [Next]_vars => StorageP!AliveInv'
<1> SUFFICES ASSUME Inv, [Next]_vars PROVE StorageP!AliveInv'
  OBVIOUS
<1>0. StorageP!AliveInv
  BY DEF Inv
<1>1. ASSUME [StorageP!Next]_(StorageP!storageVars) PROVE StorageP!AliveInv'
  BY <1>0, <1>1, StorageP!AliveStep, StorageAssumptions
<1>2. ASSUME UNCHANGED storageVars PROVE StorageP!AliveInv'
  BY <1>1, <1>2 DEF storageVars, StorageP!storageVars
<1>3. ASSUME NEW id \in Id, NEW s \in Slot, NEW r \in Req, Transfers!Emplace(id, s, r)
      PROVE  StorageP!AliveInv'
  <2>1. StorageP!Emplace(id, s, r)
    BY <1>3 DEF Transfers!Emplace, StorageP!Emplace, Transfers!Allocate, StorageP!Allocate,
       Transfers!Acquire, StorageP!Acquire
  <2> QED
    BY <1>1, <2>1 DEF StorageP!Next
<1>4. ASSUME NEW r \in Req, Transfers!DropPtr(r) PROVE StorageP!AliveInv'
  <2>1. StorageP!DropPtr(r)
    BY <1>4 DEF Transfers!DropPtr, StorageP!DropPtr, Transfers!Release, StorageP!Release
  <2> QED
    BY <1>1, <2>1 DEF StorageP!Next
<1>5. ASSUME NEW id \in Id, Transfers!Erase(id) PROVE StorageP!AliveInv'
  <2>1. StorageP!Erase(id)
    BY <1>5 DEF Transfers!Erase, StorageP!Erase, Transfers!Release, StorageP!Release
  <2> QED
    BY <1>1, <2>1 DEF StorageP!Next
<1>6. CASE Tick
  <2>1. StorageP!Tick
    BY <1>6 DEF Tick, Transfers!Tick, StorageP!Tick, Transfers!TickErase,
       StorageP!TickErase, Transfers!TickStart, StorageP!TickStart, Transfers!TickSignal,
       StorageP!TickSignal, Transfers!TickRest, StorageP!TickRest,
       Transfers!TaskAfterErase, StorageP!TaskAfterErase
  <2> QED
    BY <1>1, <2>1 DEF StorageP!Next
<1>7. CASE DestroySlot
  <2>1. StorageP!DestroyFinish
    BY <1>7 DEF DestroySlot, Transfers!DestroyFinish, StorageP!DestroyFinish
  <2> QED
    BY <1>1, <2>1 DEF StorageP!Next
<1>8. CASE Access \/ Load \/ Loaded \/ DestroyFolder \/ Ends
  BY <1>2, <1>8 DEF Access, Load, Loaded, DestroyFolder, Ends, EndTransfer
<1>9. CASE Requests
  BY <1>2, <1>3, <1>9 DEF Requests, FolderCreate, FolderDelete, FolderClear, StartTransfer
<1>10. ASSUME NEW r \in Req, Progress(r) PROVE StorageP!AliveInv'
  <2>1. Proper(r) /\ (Walking(r) => Walk(r))
    BY DEF Inv
  <2>2. CASE ShutdownSlot(r)
    <3>1. req[r].slot \in Slot /\ Live(req[r].slot) /\ GetAndClear(r, req[r].slot)
      BY <2>1, <2>2 DEF ShutdownSlot, At, Walking, Walks, Walk
    <3> QED
      BY <1>0, <3>1, GetAndClearKeeps
  <2>3. CASE SlotShut(r)
    BY <1>4, <2>3 DEF SlotShut
  <2>4. CASE Answer(r)
    BY <1>2, <1>4, <1>5, <2>1, <2>4 DEF Answer, Proper
  <2>5. CASE \/ Mkdir(r) \/ EmplaceFolder(r) \/ CloseFile(r) \/ UnlinkFile(r)
             \/ RmFile(r) \/ RmDone(r) \/ RmFails(r) \/ EraseFolder(r) \/ Remake(r)
             \/ OpenFile(r)
    BY <1>2, <2>5 DEF Mkdir, EmplaceFolder, CloseFile, UnlinkFile, RmFile, RmDone,
       RmFails, EraseFolder, Remake, OpenFile
  <2> QED
    BY <1>10, <2>2, <2>3, <2>4, <2>5 DEF Progress
<1>11. CASE UNCHANGED vars
  BY <1>2, <1>11 DEF vars, storageVars
<1> QED
  BY <1>6, <1>7, <1>8, <1>9, <1>10, <1>11 DEF Next

-----------------------------------------------------------------------------
\* A step of the request r about the folder called n, and what it leaves as
\* it is: other requests, and other folders with their uploads.
Frame(r, n) ==
    /\ phase = "ready" /\ UNCHANGED phase
    /\ ~spinning
    /\ req[r].stage = "free" \/ req[r].name = n
    /\ req'[r].stage = "free" \/ req'[r].name = n
    /\ \A x \in Req \ {r} : req'[x] = req[x] /\ held'[x] = held[x]
    /\ \A k \in Name \ {n} : flds'[k] = flds[k] /\ (k \in disk' <=> k \in disk)
    /\ \A f \in Folder : f # flds[n] => deps'[f] = deps[f]
    /\ UNCHANGED to_erase
    /\ \A s \in Slot : mem[s] # "unused" =>
         /\ mem'[s] = mem[s]
         /\ slots'[s].name = slots[s].name /\ slots'[s].folder = slots[s].folder
    /\ \A s \in Slot : mem[s] = "allocated" /\ slots[s].name # n =>
         slots'[s] = slots[s] /\ (Live(s)' <=> Live(s)) /\ (s \in files' <=> s \in files)
    /\ \A s \in Slot : mem[s] = "unused" /\ mem'[s] # "unused" => slots'[s].name = n

LEMMA FrameWalk ==
  ASSUME Inv, NEW r \in Req, NEW n \in Name, Frame(r, n),
         NEW x \in Req \ {r}, Walking(x), req[x].name # n
  PROVE  Walk(x)'
<1> DEFINE f == req[x].folder
           q == deps[f]
           s == req[x].slot
<1>1. /\ Walk(x) /\ f \in Folder /\ req[x].name \in Name
      /\ req'[x] = req[x] /\ held'[x] = held[x]
  BY DEF Inv, Proper, Walking, Walks, Removing, Frame
<1>2. flds'[req[x].name] = f /\ f # flds[n]
  BY <1>1, NullAssumption DEF Inv, Entries, Frame, Walk
<1>3. deps'[f] = q /\ q \in Seq(Slot)
  BY <1>1, <1>2 DEF Frame, Inv, OwnTypeOK
<1>4. ASSUME NEW t \in Slot, NEW j \in 1..Len(q), q[j] = t
      PROVE  /\ slots'[t] = slots[t]
             /\ Live(t)' <=> Live(t)
             /\ t \in files' <=> t \in files
  <2>1. mem[t] = "allocated" /\ slots[t].folder = f
    BY <1>1, <1>4 DEF Inv, Owned
  <2>2. slots[t].name = req[x].name
    BY <1>1, <2>1 DEF Inv, Entries, Walk
  <2> QED
    BY <2>1, <2>2 DEF Frame, Live
<1>5. PICK i \in 1..Len(q) : Position(x, i)
  BY <1>1 DEF Walk
<1>6. q[i] = s
  BY <1>5 DEF Position
<1>7. Position(x, i)'
  <2>1. ASSUME NEW j \in 1..Len(q)
        PROVE  (j < i => Shut(q[j])') /\ (i < j => Live(q[j])')
    <3>1. PICK t \in Slot : t = q[j]
      BY <1>3
    <3>2. (j < i => Shut(t)) /\ (i < j => Live(t))
      BY <1>5, <3>1 DEF Position
    <3>3. (j < i => Shut(t)') /\ (i < j => Live(t)')
      BY <1>4, <3>1, <3>2 DEF Shut
    <3> QED
      BY <1>1, <1>3, <3>1, <3>3 DEF Shut, Live
  <2> QED
    BY <1>1, <1>3, <1>6, <2>1 DEF Position
<1>8. slots'[s] = slots[s] /\ (Live(s)' <=> Live(s)) /\ (s \in files' <=> s \in files)
  BY <1>1, <1>4, <1>6 DEF Walk
<1>9. i \in 1..Len(deps'[f])
  BY <1>3
<1> QED
  BY <1>1, <1>2, <1>7, <1>8, <1>9 DEF Walk, Frame, Live

LEMMA FrameOthers ==
  ASSUME Inv, NEW r \in Req, NEW n \in Name, Frame(r, n), NEW x \in Req \ {r}
  PROVE  /\ Proper(x)'
         /\ req[x].name # n => Deleted(x)' /\ Entered(x)'
<1>1. req'[x] = req[x] /\ held'[x] = held[x] /\ phase' = phase
      /\ Proper(x) /\ Deleted(x) /\ Entered(x)
  BY DEF Inv, Frame
<1>2. Proper(x)'
  <2>1. req[x].kind = "start" => mem[req[x].slot] = "allocated"
    BY <1>1, StorageRefers, NullAssumption DEF Proper, Inv, Referred
  <2> QED
    BY <1>1, <2>1 DEF Proper, Walking, Frame
<1>3. ASSUME req[x].name # n PROVE Deleted(x)'
  <2> SUFFICES ASSUME req[x].kind = "delete", NEW s \in Slot, mem'[s] = "allocated",
                      slots'[s].name = req[x].name
               PROVE  /\ slots'[s].folder = req[x].folder
                      /\ req[x].stage \in {"rm", "erase"} => Shut(s)'
    BY <1>1 DEF Deleted
  <2>1. mem[s] = "allocated" /\ slots[s].name = req[x].name
    BY <1>3 DEF Frame
  <2> QED
    BY <1>1, <1>3, <2>1 DEF Frame, Deleted, Shut, Live
<1>4. ASSUME req[x].name # n PROVE Entered(x)'
  BY <1>1, <1>4 DEF Entered, Frame, Proper, Removing
<1> QED
  BY <1>2, <1>3, <1>4

LEMMA FrameNames ==
  ASSUME Inv, NEW r \in Req, NEW n \in Name, Frame(r, n), NEW k \in Name, k # n
  PROVE  Matched(k)'
<1>1. Matched(k) /\ flds'[k] = flds[k] /\ (k \in disk' <=> k \in disk) /\ phase' = phase
  BY DEF Inv, Frame
<1>2. Makers(k)' = Makers(k)
  BY DEF Makers, Frame
<1>3. Removers(k)' = Removers(k)
  <2>1. r \notin Removers(k) /\ r \notin Removers(k)'
    BY DEF Removers, Frame
  <2> QED
    BY <2>1 DEF Removers, Frame
<1> QED
  BY <1>1, <1>2, <1>3 DEF Matched, One

-----------------------------------------------------------------------------
\* What the parts of the invariant need of a step.
LEMMA ExclusiveKept ==
  ASSUME Exclusive,
         \A x \in Req : \/ req'[x].kind = "none"
                        \/ /\ req'[x].kind = req[x].kind /\ req'[x].name = req[x].name
                           /\ Walking(x)' => Walking(x),
         \A s \in Slot : mem'[s] = "allocated" =>
             mem[s] = "allocated" /\ slots'[s].name = slots[s].name
  PROVE  Exclusive'
BY DEF Exclusive, Using, Removing, Walking

LEMMA OwnedKept ==
  ASSUME Owned, OwnTypeOK, UNCHANGED <<deps, mem>>,
         \A s \in Slot : mem[s] = "allocated" =>
             slots'[s].name = slots[s].name /\ slots'[s].folder = slots[s].folder
  PROVE  Owned'
<1>1. \A f \in Folder : \A i \in 1..Len(deps[f]) : deps[f][i] \in Slot
  BY DEF OwnTypeOK
<1> QED
  BY <1>1 DEF Owned, Listed

LEMMA EntriesKept ==
  ASSUME Entries, Owned, UNCHANGED mem,
         \A s \in Slot : mem[s] = "allocated" =>
             slots'[s].name = slots[s].name /\ slots'[s].folder = slots[s].folder,
         \A s \in Slot : Live(s)' => Live(s) /\ mem[s] = "allocated",
         \A k \in Name : \/ flds'[k] = flds[k]
                         \/ flds'[k] = Null /\ \A s \in Slot : Live(s)' => slots[s].name # k
  PROVE  Entries'
<1>1. \A s \in Slot, n \in Name : mem'[s] = "allocated" /\ flds'[n] = slots'[s].folder =>
        n = slots'[s].name
  BY NullAssumption DEF Entries, Owned
<1>2. \A n, k \in Name : flds'[n] # Null /\ flds'[n] = flds'[k] => n = k
  BY DEF Entries
<1>3. \A s \in Slot : Live(s)' => flds'[slots'[s].name] = slots'[s].folder
  BY DEF Entries, Owned
<1> QED
  BY <1>1, <1>2, <1>3 DEF Entries

LEMMA FiledKept ==
  ASSUME NEW s \in Slot, Filed(s), slots'[s] = slots[s], s \in files => s \in files',
         mem'[s] = mem[s], Live(s)' => Live(s), UNCHANGED to_erase
  PROVE  Filed(s)'
BY DEF Filed

LEMMA MatchedKept ==
  ASSUME NEW n \in Name, Matched(n), UNCHANGED phase, flds'[n] = flds[n],
         n \in disk' <=> n \in disk,
         \A x \in Req : x \in Makers(n)' <=> x \in Makers(n),
         \A x \in Req : x \in Removers(n)' <=> x \in Removers(n)
  PROVE  Matched(n)'
<1>1. Makers(n)' = Makers(n) /\ Removers(n)' = Removers(n)
  BY DEF Makers, Removers
<1> QED
  BY <1>1 DEF Matched, One

\* No other request walks in the folder of a request.
LEMMA OthersDoNotWalk ==
  ASSUME Inv, NEW r \in Req, req[r].stage # "free", NEW x \in Req \ {r}, Walking(x)
  PROVE  req[x].name # req[r].name
<1>1. req[r].kind \in Using \cup Removing
  BY DEF Inv, OwnTypeOK, Request, Proper, Using, Removing
<1>2. req[x].kind \in Removing
  BY DEF Walking, Removing
<1> QED
  BY <1>1, <1>2 DEF Inv, Exclusive

\* r goes on, or is answered.
Proceeds(r) ==
    /\ req[r].stage # "free"
    /\ \/ req'[r].kind = "none" /\ req'[r].stage = "free"
       \/ /\ req'[r].kind = req[r].kind /\ req'[r].name = req[r].name
          /\ req'[r].folder = req[r].folder
          /\ Walking(r)' => Walking(r)

LEMMA FrameKeeps ==
  ASSUME Inv, NEW r \in Req, NEW n \in Name, req[r].name = n, Proceeds(r), Frame(r, n),
         StorageP!AliveInv', OwnTypeOK', Owned', Entries', \A s \in Slot : Filed(s)',
         \A s \in Slot : mem[s] = "unused" => mem'[s] = "unused",
         Proper(r)', Deleted(r)', Entered(r)', Walking(r)' => Walk(r)',
         \A x \in Req \ {r} : req[x].name = n => Deleted(x)' /\ Entered(x)',
         Matched(n)'
  PROVE  Inv'
<1>1. ASSUME NEW x \in Req \ {r} PROVE Walking(x)' => Walk(x)'
  <2> SUFFICES ASSUME Walking(x)' PROVE Walk(x)'
    OBVIOUS
  <2>1. Walking(x)
    BY DEF Frame, Walking
  <2>2. req[x].name # n
    BY <2>1, OthersDoNotWalk DEF Proceeds
  <2> QED
    BY <2>1, <2>2, FrameWalk
<1>2. ASSUME NEW x \in Req \ {r} PROVE Proper(x)' /\ Deleted(x)' /\ Entered(x)'
  BY FrameOthers
<1>3. \A k \in Name : Matched(k)'
  BY FrameNames
<1>4. mem \in [Slot -> {"unused", "allocated", "freed"}]
  BY StorageRefers DEF Referred, Inv
<1>5. Exclusive'
  <2>1. \A x \in Req : \/ req'[x].kind = "none"
                       \/ /\ req'[x].kind = req[x].kind /\ req'[x].name = req[x].name
                          /\ Walking(x)' => Walking(x)
    BY DEF Frame, Proceeds, Walking
  <2>2. \A s \in Slot : mem'[s] = "allocated" =>
            mem[s] = "allocated" /\ slots'[s].name = slots[s].name
    BY <1>4 DEF Frame
  <2> QED
    BY <2>1, <2>2, ExclusiveKept DEF Inv
<1> QED
  BY <1>1, <1>2, <1>3, <1>5 DEF Inv

\* who is about to enter a name into the map, to erase it or to use it again
Makes(r) == req[r].stage = "emplace"

Removes(r) ==
    req[r].stage \in {"erase", "remake"} \/ (req[r].kind = "clear" /\ req[r].stage = "mkdir")

\* A step that leaves the map, the lists and the directories as they are.
Quiet(r) ==
    /\ ~spinning
    /\ UNCHANGED <<phase, flds, deps, disk, mem, to_erase>>
    /\ \A x \in Req \ {r} : req'[x] = req[x] /\ held'[x] = held[x]
    /\ Makes(r)' <=> Makes(r)
    /\ Removes(r)' <=> Removes(r)
    /\ \A s \in Slot : slots'[s].name = slots[s].name /\ slots'[s].folder = slots[s].folder
    /\ \A s \in Slot : mem[s] = "allocated" /\ slots[s].name # req[r].name =>
         slots'[s] = slots[s] /\ (Live(s)' <=> Live(s)) /\ (s \in files' <=> s \in files)
    /\ \A s \in Slot : Live(s)' => Live(s)

LEMMA DeletedOthers ==
  ASSUME Inv, NEW r \in Req, req[r].stage # "free", NEW x \in Req \ {r},
         req[x].name = req[r].name, req'[x] = req[x], UNCHANGED mem,
         \A s \in Slot : slots'[s].name = slots[s].name /\ slots'[s].folder = slots[s].folder,
         req[r].kind \in Removing => \A s \in Slot : mem[s] = "allocated" /\ Shut(s) => Shut(s)'
  PROVE  Deleted(x)'
<1>1. ASSUME req[x].kind = "delete" PROVE req[r].kind \in Removing
  BY <1>1 DEF Inv, OwnTypeOK, Request, Proper, Using, Removing, Exclusive
<1>2. Deleted(x)
  BY DEF Inv
<1> QED
  BY <1>1, <1>2 DEF Deleted

LEMMA LiveIsAllocated ==
  ASSUME Inv, NEW s \in Slot, Live(s)
  PROVE  mem[s] = "allocated" /\ s # to_erase /\ s # destroy_task
BY StorageRefers, NullAssumption DEF Inv, Referred, Live

LEMMA QuietKeeps ==
  ASSUME Inv, NEW r \in Req, Proceeds(r), Quiet(r),
         StorageP!AliveInv', OwnTypeOK', \A s \in Slot : Filed(s)',
         Proper(r)', Deleted(r)', Entered(r)', Walking(r)' => Walk(r)',
         req[r].kind \in Removing => \A s \in Slot : mem[s] = "allocated" /\ Shut(s) => Shut(s)'
  PROVE  Inv'
<1>1. PICK n \in Name : n = req[r].name
  BY DEF Proceeds, Inv, Proper
<1>2. phase = "ready"
  BY DEF Proceeds, Inv, Proper
<1>3. Frame(r, n)
  BY <1>1, <1>2 DEF Frame, Quiet, Proceeds
<1>4. Owned' /\ Entries'
  BY OwnedKept, EntriesKept, LiveIsAllocated DEF Inv, Quiet
<1>5. Matched(n)'
  <2>1. \A x \in Req : x \in Makers(n)' <=> x \in Makers(n)
    BY <1>1 DEF Quiet, Proceeds, Makers, Makes
  <2>2. \A x \in Req : x \in Removers(n)' <=> x \in Removers(n)
    BY <1>1 DEF Quiet, Proceeds, Removers, Removes
  <2> QED
    BY <2>1, <2>2, MatchedKept DEF Inv, Quiet
<1>6. ASSUME NEW x \in Req \ {r}, req[x].name = n PROVE Deleted(x)' /\ Entered(x)'
  <2>1. Deleted(x)'
    BY <1>1, <1>6, DeletedOthers DEF Quiet, Proceeds
  <2>2. Entered(x)'
    BY DEF Inv, Entered, Quiet
  <2> QED
    BY <2>1, <2>2
<1> QED
  BY <1>1, <1>3, <1>4, <1>5, <1>6, FrameKeeps DEF Quiet

\* A coroutine that goes on.
LEMMA Goes ==
  ASSUME OwnTypeOK, NEW r \in Req, NEW stage, NEW ok \in BOOLEAN, Goto(r, stage, ok),
         stage \in {"emplace", "close", "unlink", "shut", "rm", "erase", "remake",
                    "mkdir", "answer"}
  PROVE  /\ req' \in [Req -> Request]
         /\ req'[r].kind = req[r].kind /\ req'[r].name = req[r].name
         /\ req'[r].folder = req[r].folder /\ req'[r].slot = req[r].slot
         /\ req'[r].id = req[r].id
         /\ req'[r].stage = stage /\ req'[r].ok = ok
         /\ \A x \in Req \ {r} : req'[x] = req[x]
<1>1. req \in [Req -> Request] /\ req[r] \in Request
  BY DEF OwnTypeOK
<1> DEFINE new == [req[r] EXCEPT !.stage = stage, !.ok = ok]
<1>2. /\ new \in Request
      /\ new.kind = req[r].kind /\ new.name = req[r].name
      /\ new.folder = req[r].folder /\ new.slot = req[r].slot /\ new.id = req[r].id
      /\ new.stage = stage /\ new.ok = ok
  BY <1>1, ZenonT(30) DEF Request
<1>3. req' = [req EXCEPT ![r] = new]
  BY <1>1 DEF Goto, Request
<1> HIDE DEF new
<1> QED
  BY <1>1, <1>2, <1>3

\* A slot whose file is opened or closed.
LEMMA FileFlags ==
  ASSUME slots \in [Slot -> Members], NEW s \in Slot, NEW flag \in BOOLEAN,
         \/ slots' = [slots EXCEPT ![s].open = flag, ![s].fh = flag]
         \/ slots' = [slots EXCEPT ![s].fh = flag, ![s].open = flag]
  PROVE  /\ slots' \in [Slot -> Members]
         /\ \A t \in Slot : slots'[t].name = slots[t].name /\ slots'[t].folder = slots[t].folder
         /\ \A t \in Slot \ {s} : slots'[t] = slots[t]
         /\ slots'[s].fh = flag /\ slots'[s].open = flag
<1> DEFINE new == [slots[s] EXCEPT !.open = flag, !.fh = flag]
<1>1. /\ new \in Members
      /\ new.name = slots[s].name /\ new.folder = slots[s].folder
      /\ new.fh = flag /\ new.open = flag
  BY ZenonT(30) DEF Members
<1>2. slots[s] \in Members
  OBVIOUS
<1>3. slots' = [slots EXCEPT ![s] = new]
  BY <1>2 DEF Members
<1> HIDE DEF new
<1> QED
  BY <1>1, <1>3

\* A walk that stays at its slot.
LEMMA WalkStays ==
  ASSUME Inv, NEW r \in Req, Walking(r), UNCHANGED <<deps, flds>>,
         req'[r].folder = req[r].folder, req'[r].name = req[r].name,
         req'[r].slot = req[r].slot,
         \A t \in Slot : Shut(t) => Shut(t)',
         \A t \in Slot : slots'[t].name = slots[t].name,
         \A t \in Slot : Live(t) /\ t # req[r].slot => Live(t)'
  PROVE  /\ req'[r].slot \in Slot
         /\ slots'[req'[r].slot].name = req'[r].name
         /\ flds'[req'[r].name] = req'[r].folder
         /\ \E i \in 1..Len(deps'[req'[r].folder]) : Position(r, i)'
<1> DEFINE f == req[r].folder
           q == deps[f]
<1>1. Walk(r) /\ f \in Folder
  BY DEF Inv, Proper, Walking, Removing
<1>2. q \in Seq(Slot) /\ deps'[req'[r].folder] = q
  BY <1>1 DEF Inv, OwnTypeOK
<1>3. PICK i \in 1..Len(q) : Position(r, i)
  BY <1>1 DEF Walk
<1>4. ASSUME NEW j \in 1..Len(q), NEW t \in Slot, t = q[j]
      PROVE  /\ j < i => Shut(t)'
             /\ i < j => Live(t)'
  <2>1. i < j => t # req[r].slot
    BY <1>1, <1>3, <1>4 DEF Position, Inv, Owned
  <2> QED
    BY <1>3, <1>4, <2>1 DEF Position
<1>5. Position(r, i)'
  <2>1. ASSUME NEW j \in 1..Len(q)
        PROVE  (j < i => Shut(q[j])') /\ (i < j => Live(q[j])')
    <3>1. PICK t \in Slot : t = q[j]
      BY <1>2
    <3>2. (j < i => Shut(t)') /\ (i < j => Live(t)')
      BY <1>4, <3>1
    <3> QED
      BY <3>1, <3>2, <1>2 DEF Shut, Live
  <2> QED
    BY <1>2, <1>3, <2>1 DEF Position
<1> QED
  BY <1>1, <1>2, <1>3, <1>5 DEF Walk

-----------------------------------------------------------------------------
\* The steps of the coroutines, one by one.
LEMMA CloseFileKeeps ==
  ASSUME Inv, NEW r \in Req, CloseFile(r), StorageP!AliveInv'
  PROVE  Inv'
<1>0. /\ OwnTypeOK /\ Proper(r) /\ Deleted(r) /\ Entered(r) /\ ~spinning
      /\ req[r].stage = "close" /\ req[r].kind \in {"delete", "end"}
      /\ UNCHANGED <<storageVars, phase, flds, deps, condemned, diskVars>>
  BY DEF Inv, CloseFile, At
<1>1. PICK s \in Slot : s = req[r].slot
  BY <1>0 DEF Proper, Inv, Walking, Walks, Walk
<1>2. slots[s].name = req[r].name
  BY <1>0, <1>1 DEF Proper, Inv, Walking, Walks, Walk
<1>3. \A t \in Slot : Live(t)' <=> Live(t)
  BY <1>0 DEF storageVars, Live
<1>4. slots \in [Slot -> Members]
  BY <1>0 DEF OwnTypeOK
<1>5. CASE req[r].kind = "delete"
  <2>1. Walking(r) /\ Walk(r) /\ slots[s].fh /\ slots[s].open
    BY <1>0, <1>1, <1>5 DEF Inv, Walking, Walks, Walk
  <2>2. slots' = [slots EXCEPT ![s].open = FALSE] /\ Goto(r, "unlink", TRUE)
    BY <1>1, <1>5, <2>1 DEF CloseFile
  <2>3. /\ slots' \in [Slot -> Members]
        /\ slots'[s].fh /\ ~slots'[s].open
        /\ \A t \in Slot : slots'[t].name = slots[t].name /\ slots'[t].folder = slots[t].folder
        /\ \A t \in Slot \ {s} : slots'[t] = slots[t]
    BY <1>4, <2>1, <2>2 DEF Members
  <2>4. /\ req' \in [Req -> Request]
        /\ req'[r].kind = req[r].kind /\ req'[r].name = req[r].name
        /\ req'[r].folder = req[r].folder /\ req'[r].slot = req[r].slot
        /\ req'[r].stage = "unlink" /\ req'[r].ok = TRUE
        /\ \A x \in Req \ {r} : req'[x] = req[x]
    BY <1>0, <2>2, Goes
  <2>5. \A t \in Slot : Shut(t) => Shut(t)'
    BY <1>3, <2>1, <2>3 DEF Shut
  <2>6. held[r] = s /\ ~Live(s) /\ s \in files
    <3>1. held[r] = s /\ ~Live(s) /\ mem[s] = "allocated" /\ s # to_erase
      BY <1>0, <1>1, <2>1, StorageRefers, NullAssumption DEF Walk, Inv, Referred
    <3> QED
      BY <2>1, <3>1 DEF Inv, Filed
  <2>7. Walk(r)'
    <3>1. /\ req'[r].slot \in Slot
          /\ slots'[req'[r].slot].name = req'[r].name
          /\ flds'[req'[r].name] = req'[r].folder
          /\ \E i \in 1..Len(deps'[req'[r].folder]) : Position(r, i)'
      BY <1>0, <1>3, <2>1, <2>3, <2>4, <2>5, WalkStays
    <3> QED
      BY <1>0, <1>1, <1>3, <2>3, <2>4, <2>6, <3>1 DEF Walk, storageVars, diskVars
  <2>8. \A t \in Slot : Filed(t)'
    <3>1. ASSUME NEW t \in Slot \ {s} PROVE Filed(t)'
      BY <1>0, <2>3, <1>3, FiledKept DEF Inv, storageVars, diskVars
    <3>2. Filed(s)'
      BY <1>0, <1>3, <2>3, <2>6 DEF Filed, diskVars
    <3> QED
      BY <3>1, <3>2
  <2>9. Proper(r)' /\ Deleted(r)' /\ Entered(r)'
    BY <1>0, <1>1, <1>3, <1>5, <2>1, <2>3, <2>4
    DEF Proper, Deleted, Entered, Walking, Walks, Removing, storageVars
  <2>10. OwnTypeOK'
    BY <1>0, <2>3, <2>4 DEF OwnTypeOK, diskVars
  <2>11. Proceeds(r)
    BY <1>0, <2>1, <2>4 DEF Proceeds
  <2>12. Quiet(r)
    BY <1>0, <1>2, <1>3, <2>3, <2>4 DEF Quiet, Makes, Removes, storageVars, diskVars
  <2> QED
    BY <2>5, <2>7, <2>8, <2>9, <2>10, <2>11, <2>12, QuietKeeps
<1>6. CASE req[r].kind = "end"
  <2>1. \/ slots' = [slots EXCEPT ![s].open = FALSE, ![s].fh = FALSE]
           /\ Goto(r, "answer", TRUE)
        \/ slots' = slots /\ Goto(r, "answer", FALSE)
    BY <1>1, <1>6 DEF CloseFile
  <2>2. /\ slots' \in [Slot -> Members]
        /\ \A t \in Slot : slots'[t].name = slots[t].name /\ slots'[t].folder = slots[t].folder
        /\ \A t \in Slot \ {s} : slots'[t] = slots[t]
        /\ slots'[s] = slots[s] \/ (~slots'[s].fh /\ ~slots'[s].open)
    BY <1>4, <2>1, FileFlags
  <2>3. /\ req' \in [Req -> Request]
        /\ req'[r].kind = req[r].kind /\ req'[r].name = req[r].name
        /\ req'[r].folder = req[r].folder /\ req'[r].slot = req[r].slot
        /\ req'[r].id = req[r].id
        /\ req'[r].stage = "answer"
        /\ \A x \in Req \ {r} : req'[x] = req[x]
    BY <1>0, <2>1, Goes
  <2>4. \A t \in Slot : Filed(t)'
    <3>1. ASSUME NEW t \in Slot, slots'[t] = slots[t] PROVE Filed(t)'
      BY <1>0, <3>1, <1>3, FiledKept DEF Inv, storageVars, diskVars
    <3> QED
      BY <2>2, <3>1 DEF Filed
  <2>5. Proper(r)' /\ Deleted(r)' /\ Entered(r)' /\ ~Walking(r)'
    BY <1>0, <1>1, <1>6, <2>2, <2>3
    DEF Proper, Deleted, Entered, Walking, Walks, Removing, storageVars
  <2>6. OwnTypeOK'
    BY <1>0, <2>2, <2>3 DEF OwnTypeOK, diskVars
  <2>7. Proceeds(r)
    BY <1>0, <2>3, <2>5 DEF Proceeds
  <2>8. Quiet(r)
    BY <1>0, <1>1, <1>2, <1>3, <2>2, <2>3 DEF Quiet, Makes, Removes, storageVars, diskVars
  <2> QED
    BY <1>6, <2>4, <2>5, <2>6, <2>7, <2>8, QuietKeeps DEF Removing
<1> QED
  BY <1>0, <1>5, <1>6

LEMMA UnlinkFileKeeps ==
  ASSUME Inv, NEW r \in Req, UnlinkFile(r), StorageP!AliveInv'
  PROVE  Inv'
<1>0. /\ OwnTypeOK /\ Proper(r) /\ Deleted(r) /\ Entered(r) /\ ~spinning
      /\ req[r].stage = "unlink" /\ req[r].kind = "delete" /\ Walking(r) /\ Walk(r)
      /\ UNCHANGED <<storageVars, phase, flds, deps, condemned, disk>>
  BY DEF Inv, UnlinkFile, At, Walking, Walks
<1>1. PICK s \in Slot : s = req[r].slot
  BY <1>0 DEF Walk
<1>2. /\ slots[s].name = req[r].name /\ slots[s].fh /\ ~slots[s].open /\ s \in files
      /\ held[r] = s /\ ~Live(s)
  BY <1>0, <1>1 DEF Walk
<1>3. \A t \in Slot : Live(t)' <=> Live(t)
  BY <1>0 DEF storageVars, Live
<1>4. slots \in [Slot -> Members]
  BY <1>0 DEF OwnTypeOK
<1>5. PICK gone \in BOOLEAN :
        /\ Goto(r, "shut", gone)
        /\ gone => files' = files \ {s} /\ slots' = [slots EXCEPT ![s].fh = FALSE]
        /\ ~gone => files' = files /\ slots' = slots
  BY <1>1, <1>2 DEF UnlinkFile
<1>6. /\ slots' \in [Slot -> Members]
      /\ ~slots'[s].open
      /\ gone => ~slots'[s].fh
      /\ ~gone => s \in files'
      /\ \A t \in Slot : slots'[t].name = slots[t].name /\ slots'[t].folder = slots[t].folder
      /\ \A t \in Slot \ {s} : slots'[t] = slots[t] /\ (t \in files => t \in files')
      /\ files' \subseteq Slot
  <2>1. CASE gone
    <3>1. slots' = [slots EXCEPT ![s].fh = FALSE] /\ files' = files \ {s}
      BY <1>5, <2>1
    <3>2. /\ slots' \in [Slot -> Members]
          /\ ~slots'[s].fh /\ ~slots'[s].open
          /\ \A t \in Slot : slots'[t].name = slots[t].name /\ slots'[t].folder = slots[t].folder
          /\ \A t \in Slot \ {s} : slots'[t] = slots[t]
      BY <1>2, <1>4, <3>1 DEF Members
    <3> QED
      BY <1>0, <2>1, <3>1, <3>2 DEF OwnTypeOK
  <2>2. CASE ~gone
    BY <1>0, <1>2, <1>4, <1>5, <2>2 DEF OwnTypeOK
  <2> QED
    BY <2>1, <2>2
<1>7. /\ req' \in [Req -> Request]
      /\ req'[r].kind = req[r].kind /\ req'[r].name = req[r].name
      /\ req'[r].folder = req[r].folder /\ req'[r].slot = req[r].slot
      /\ req'[r].stage = "shut" /\ req'[r].ok = gone
      /\ \A x \in Req \ {r} : req'[x] = req[x]
  BY <1>0, <1>5, Goes
<1>8. \A t \in Slot : Shut(t) => Shut(t)'
  BY <1>2, <1>3, <1>6 DEF Shut
<1>9. Walk(r)'
  <2>1. /\ req'[r].slot \in Slot
        /\ slots'[req'[r].slot].name = req'[r].name
        /\ flds'[req'[r].name] = req'[r].folder
        /\ \E i \in 1..Len(deps'[req'[r].folder]) : Position(r, i)'
    BY <1>0, <1>3, <1>6, <1>7, <1>8, WalkStays
  <2> QED
    BY <1>0, <1>1, <1>2, <1>3, <1>6, <1>7, <2>1 DEF Walk, storageVars
<1>10. \A t \in Slot : Filed(t)'
  <2>1. ASSUME NEW t \in Slot \ {s} PROVE Filed(t)'
    BY <1>0, <1>3, <1>6, FiledKept DEF Inv, storageVars
  <2>2. Filed(s)'
    BY <1>2, <1>3, <1>6 DEF Filed
  <2> QED
    BY <2>1, <2>2
<1>11. Proper(r)' /\ Deleted(r)' /\ Entered(r)'
  BY <1>0, <1>6, <1>7
  DEF Proper, Deleted, Entered, Walking, Walks, Removing, storageVars
<1>12. OwnTypeOK'
  BY <1>0, <1>5, <1>6, <1>7 DEF OwnTypeOK
<1>13. Proceeds(r)
  BY <1>0, <1>7 DEF Proceeds
<1>14. Quiet(r)
  BY <1>0, <1>2, <1>3, <1>5, <1>6, <1>7 DEF Quiet, Makes, Removes, storageVars
<1> QED
  BY <1>8, <1>9, <1>10, <1>11, <1>12, <1>13, <1>14, QuietKeeps

LEMMA ShutdownSlotKeeps ==
  ASSUME Inv, NEW r \in Req, ShutdownSlot(r), StorageP!AliveInv'
  PROVE  Inv'
<1>0. /\ OwnTypeOK /\ Proper(r) /\ Deleted(r) /\ Entered(r) /\ ~spinning
      /\ req[r].stage = "shutdown" /\ req[r].kind = "delete" /\ Walking(r) /\ Walk(r)
      /\ UNCHANGED <<phase, flds, deps, condemned, diskVars, slots>>
      /\ UNCHANGED <<mem, to_del, destroy_task, to_erase, shutdown>>
  BY DEF Inv, ShutdownSlot, At, Walking, Walks, GetAndClear
<1>1. PICK s \in Slot : s = req[r].slot
  BY <1>0 DEF Walk
<1>2. slots[s].name = req[r].name /\ Live(s) /\ mem[s] = "allocated" /\ s # to_erase
  BY <1>0, <1>1, LiveIsAllocated DEF Walk
<1>3. m \in [Id -> Slot \cup {Null}] /\ held \in [Req -> Slot \cup {Null}]
  BY StorageRefers DEF Inv, Referred
<1>4. /\ held' = [held EXCEPT ![r] = s]
      /\ \A t \in Slot \ {s} : Live(t)' <=> Live(t)
      /\ Live(s)' => spinning'
  BY <1>1, <1>2, <1>3, NullAssumption DEF ShutdownSlot, GetAndClear, Live
<1>5. PICK stage \in {"close", "shut"} :
        Goto(r, stage, TRUE) /\ (slots[s].fh <=> stage = "close")
  BY <1>1 DEF ShutdownSlot
<1>6. /\ req' \in [Req -> Request]
      /\ req'[r].kind = req[r].kind /\ req'[r].name = req[r].name
      /\ req'[r].folder = req[r].folder /\ req'[r].slot = req[r].slot
      /\ req'[r].stage = stage /\ req'[r].ok = TRUE
      /\ \A x \in Req \ {r} : req'[x] = req[x]
  BY <1>0, <1>5, Goes
<1>7. slots[s].fh <=> slots[s].open
  BY <1>2 DEF Inv, Filed
<1>8. \A t \in Slot : Shut(t) => Shut(t)'
  BY <1>0, <1>2, <1>4 DEF Shut
<1>9. Walk(r)'
  <2>1. /\ req'[r].slot \in Slot
        /\ slots'[req'[r].slot].name = req'[r].name
        /\ flds'[req'[r].name] = req'[r].folder
        /\ \E i \in 1..Len(deps'[req'[r].folder]) : Position(r, i)'
    BY <1>0, <1>1, <1>4, <1>6, <1>8, WalkStays
  <2>2. held'[r] = s
    BY <1>3, <1>4
  <2> QED
    BY <1>0, <1>1, <1>4, <1>5, <1>6, <1>7, <2>1, <2>2 DEF Walk
<1>10. \A t \in Slot : Filed(t)'
  BY <1>0, <1>2, <1>4, FiledKept DEF Inv, diskVars
<1>11. Proper(r)' /\ Deleted(r)' /\ Entered(r)'
  BY <1>0, <1>5, <1>6 DEF Proper, Deleted, Entered, Walking, Walks, Removing
<1>12. OwnTypeOK'
  BY <1>0, <1>6 DEF OwnTypeOK, diskVars
<1>13. Proceeds(r)
  BY <1>0, <1>6 DEF Proceeds
<1>14. Quiet(r)
  BY <1>0, <1>2, <1>3, <1>4, <1>5, <1>6 DEF Quiet, Makes, Removes, diskVars
<1> QED
  BY <1>8, <1>9, <1>10, <1>11, <1>12, <1>13, <1>14, QuietKeeps

\* The dependent after the i-th.
LEMMA AfterIth ==
  ASSUME NEW q \in Seq(Slot), NEW i \in 1..Len(q), \A j \in 1..Len(q) : q[i] = q[j] => i = j
  PROVE  After(q, q[i]) = IF i < Len(q) THEN q[i + 1] ELSE Null
<1>1. q[i] # Null
  BY NullAssumption
<1>2. CASE i < Len(q)
  <2> DEFINE c == CHOOSE j \in 1..Len(q) - 1 : q[j] = q[i]
  <2>1. i \in 1..Len(q) - 1
    BY <1>2
  <2>2. c \in 1..Len(q) - 1 /\ q[c] = q[i]
    BY <2>1
  <2>3. c = i
    BY <2>2
  <2>4. After(q, q[i]) = q[1 + c]
    BY <1>1, <2>1 DEF After
  <2> HIDE DEF c
  <2> QED
    BY <1>2, <2>3, <2>4
<1>3. CASE ~(i < Len(q))
  <2>1. ~\E j \in 1..Len(q) - 1 : q[j] = q[i]
    BY <1>3
  <2> QED
    BY <1>1, <1>3, <2>1 DEF After
<1> QED
  BY <1>2, <1>3

LEMMA SlotShutKeeps ==
  ASSUME Inv, NEW r \in Req, SlotShut(r), StorageP!AliveInv'
  PROVE  Inv'
<1>0. /\ OwnTypeOK /\ Proper(r) /\ Deleted(r) /\ Entered(r) /\ ~spinning
      /\ req[r].stage = "shut" /\ req[r].kind = "delete" /\ Walking(r) /\ Walk(r)
      /\ UNCHANGED <<phase, flds, deps, condemned, diskVars, slots>>
      /\ UNCHANGED <<m, mem, destroy_task, to_erase>>
  BY DEF Inv, SlotShut, At, Walking, Walks, Transfers!DropPtr
<1>1. PICK s \in Slot : s = req[r].slot
  BY <1>0 DEF Walk
<1>2. PICK f \in Folder : f = req[r].folder
  BY <1>0 DEF Proper, Removing
<1>3. PICK q \in Seq(Slot) : q = deps[f]
  BY <1>0 DEF OwnTypeOK
<1>4. ~Live(s) /\ (req[r].ok => Shut(s)) /\ flds[req[r].name] = f
  BY <1>0, <1>1, <1>2 DEF Walk, Shut
<1>5. PICK i \in 1..Len(q) : Position(r, i)
  BY <1>0, <1>2, <1>3 DEF Walk
<1>6. /\ q[i] = s
      /\ \A j \in 1..Len(q) : (j < i => Shut(q[j])) /\ (i < j => Live(q[j]))
  BY <1>1, <1>2, <1>3, <1>5 DEF Position
<1>7. \A j \in 1..Len(q) :
        mem[q[j]] = "allocated" /\ slots[q[j]].folder = f /\ slots[q[j]].name = req[r].name
  <2>1. ASSUME NEW j \in 1..Len(q), NEW t \in Slot, t = q[j]
        PROVE  mem[t] = "allocated" /\ slots[t].folder = f /\ slots[t].name = req[r].name
    BY <1>0, <1>3, <1>4, <2>1 DEF Inv, Owned, Entries, Proper
  <2> QED
    BY <2>1
<1>8. After(q, s) = IF i < Len(q) THEN q[i + 1] ELSE Null
  BY <1>3, <1>6, AfterIth DEF Inv, Owned
<1>9. /\ held \in [Req -> Slot \cup {Null}]
      /\ held' = [held EXCEPT ![r] = Null]
  BY StorageRefers DEF Inv, Referred, SlotShut, Transfers!DropPtr
<1>10. \A t \in Slot : (Live(t)' <=> Live(t)) /\ (Shut(t)' <=> Shut(t))
  BY <1>0 DEF Live, Shut
<1>11. PICK slot \in Slot \cup {Null}, stage \in {"shutdown", "rm", "answer"} :
         /\ req[r].ok /\ i < Len(q) => slot = q[i + 1] /\ stage = "shutdown"
         /\ req[r].ok /\ ~(i < Len(q)) => slot = Null /\ stage = "rm"
         /\ ~req[r].ok => slot = Null /\ stage = "answer"
         /\ req[r].ok => slot = After(q, s) /\ stage = StageAfter(q, s)
  <2>1. CASE req[r].ok /\ i < Len(q)
    <3>1. q[i + 1] \in Slot
      BY <2>1
    <3> QED
      BY <1>8, <2>1, <3>1, NullAssumption DEF StageAfter
  <2>2. CASE req[r].ok /\ ~(i < Len(q))
    BY <1>8, <2>2 DEF StageAfter
  <2>3. CASE ~req[r].ok
    BY <2>3
  <2> QED
    BY <2>1, <2>2, <2>3
<1>12. req' = [req EXCEPT ![r].stage = stage, ![r].slot = slot]
  <2>1. CASE req[r].ok
    BY <1>1, <1>2, <1>3, <1>11, <2>1 DEF SlotShut
  <2>2. CASE ~req[r].ok
    BY <1>11, <2>2 DEF SlotShut
  <2> QED
    BY <2>1, <2>2
<1>13. /\ req' \in [Req -> Request]
       /\ req'[r].kind = req[r].kind /\ req'[r].name = req[r].name
       /\ req'[r].folder = req[r].folder /\ req'[r].slot = slot
       /\ req'[r].stage = stage /\ req'[r].ok = req[r].ok
       /\ \A x \in Req \ {r} : req'[x] = req[x]
  <2> DEFINE new == [req[r] EXCEPT !.stage = stage, !.slot = slot]
  <2>1. req \in [Req -> Request] /\ req[r] \in Request
    BY <1>0 DEF OwnTypeOK
  <2>2. /\ new \in Request
        /\ new.kind = req[r].kind /\ new.name = req[r].name
        /\ new.folder = req[r].folder /\ new.slot = slot
        /\ new.stage = stage /\ new.ok = req[r].ok
    BY <2>1 DEF Request
  <2>3. req' = [req EXCEPT ![r] = new]
    BY <1>12, <2>1 DEF Request
  <2> HIDE DEF new
  <2> QED
    BY <2>1, <2>2, <2>3
<1>14. Walking(r)' => Walk(r)'
  <2> SUFFICES ASSUME req[r].ok, i < Len(q) PROVE Walk(r)'
    BY <1>11, <1>13 DEF Walking, Walks
  <2>1. i + 1 \in 1..Len(q) /\ slot = q[i + 1] /\ slot \in Slot /\ stage = "shutdown"
    BY <1>11
  <2>2. slots[slot].name = req[r].name
    BY <1>7, <2>1
  <2>3. Live(slot)
    BY <1>6, <2>1
  <2>4. Live(slot)'
    BY <1>10, <2>1, <2>3
  <2>5. \A j \in 1..Len(q) : (j < i + 1 => Shut(q[j])) /\ (i + 1 < j => Live(q[j]))
    BY <1>4, <1>6
  <2>6. ASSUME NEW j \in 1..Len(q), NEW t \in Slot, t = q[j]
        PROVE  (j < i + 1 => Shut(t)') /\ (i + 1 < j => Live(t)')
    BY <1>10, <2>5, <2>6
  <2>7. deps'[req'[r].folder] = q
    BY <1>0, <1>2, <1>3, <1>13
  <2>8. Position(r, i + 1)'
    <3>1. ASSUME NEW j \in 1..Len(q)
          PROVE  (j < i + 1 => Shut(q[j])') /\ (i + 1 < j => Live(q[j])')
      <4>1. PICK t \in Slot : t = q[j]
        OBVIOUS
      <4>2. (j < i + 1 => Shut(t)') /\ (i + 1 < j => Live(t)')
        BY <2>6, <4>1
      <4> QED
        BY <4>1, <4>2 DEF Shut, Live
    <3> QED
      BY <1>13, <2>1, <2>7, <3>1 DEF Position
  <2> QED
    BY <1>0, <1>2, <1>4, <1>13, <2>1, <2>2, <2>4, <2>7, <2>8 DEF Walk, Live
<1>15. Deleted(r)'
  <2> SUFFICES ASSUME NEW t \in Slot, mem[t] = "allocated", slots[t].name = req[r].name
               PROVE  slots[t].folder = f /\ (stage = "rm" => Shut(t)')
    BY <1>0, <1>2, <1>13 DEF Deleted
  <2>1. slots[t].folder = f
    BY <1>0, <1>2 DEF Deleted
  <2>2. PICK j \in 1..Len(q) : q[j] = t
    BY <1>3, <2>1 DEF Inv, Owned, Listed
  <2>3. stage = "rm" => req[r].ok /\ (j < i \/ j = i)
    BY <1>11
  <2>4. stage = "rm" => Shut(t)
    BY <1>4, <1>6, <2>2, <2>3
  <2> QED
    BY <1>10, <2>1, <2>4
<1>16. Proper(r)' /\ Entered(r)'
  BY <1>0, <1>2, <1>4, <1>9, <1>11, <1>13 DEF Proper, Entered, Walking, Walks, Removing
<1>17. \A t \in Slot : Filed(t)'
  BY <1>0, <1>10, FiledKept DEF Inv, diskVars
<1>18. OwnTypeOK'
  BY <1>0, <1>13 DEF OwnTypeOK, diskVars
<1>19. Proceeds(r)
  BY <1>0, <1>13 DEF Proceeds
<1>20. Quiet(r)
  BY <1>0, <1>9, <1>10, <1>11, <1>13 DEF Quiet, Makes, Removes, diskVars
<1> QED
  BY <1>10, <1>14, <1>15, <1>16, <1>17, <1>18, <1>19, <1>20, QuietKeeps

LEMMA RmFileKeeps ==
  ASSUME Inv, NEW r \in Req, RmFile(r), StorageP!AliveInv'
  PROVE  Inv'
<1>0. /\ OwnTypeOK /\ Proper(r) /\ Deleted(r) /\ Entered(r) /\ ~spinning
      /\ req[r].stage = "rm" /\ req[r].kind \in Removing /\ ~Walking(r)
      /\ UNCHANGED <<storageVars, phase, flds, deps, condemned, disk, slots, req>>
  BY DEF Inv, RmFile, At, Walking, Walks, Removing
<1>1. PICK s \in files : slots[s].name = req[r].name /\ files' = files \ {s}
  BY DEF RmFile, FilesIn
<1>2. \A t \in Slot : (Live(t)' <=> Live(t)) /\ (Shut(t)' <=> Shut(t))
  BY <1>0 DEF Live, Shut, storageVars
<1>3. ASSUME NEW t \in Slot PROVE Filed(t)'
  <2>2. CASE t = s
    <3>1. mem[t] = "allocated" => ~slots[t].fh
      BY <1>0, <1>1, <2>2 DEF Deleted, Shut, Removing, Inv, Exclusive
    <3> QED
      BY <1>0, <1>2, <3>1 DEF Filed, Inv, storageVars
  <2>3. CASE t # s
    BY <1>0, <1>1, <1>2, <2>3, FiledKept DEF Inv, storageVars
  <2> QED
    BY <2>2, <2>3
<1>4. Proper(r)' /\ Deleted(r)' /\ Entered(r)' /\ ~Walking(r)'
  BY <1>0, <1>2 DEF Proper, Deleted, Entered, Walking, storageVars
<1>5. OwnTypeOK'
  BY <1>0, <1>1 DEF OwnTypeOK
<1>6. Proceeds(r)
  BY <1>0 DEF Proceeds, Walking
<1>7. Quiet(r)
  BY <1>0, <1>1, <1>2 DEF Quiet, Makes, Removes, storageVars
<1> QED
  BY <1>2, <1>3, <1>4, <1>5, <1>6, <1>7, QuietKeeps

\* A request that only goes on to another stage.
LEMMA OnlyGoes ==
  ASSUME Inv, NEW r \in Req, NEW stage \in {"mkdir", "answer"}, NEW ok \in BOOLEAN,
         Goto(r, stage, ok), ~spinning, req[r].kind \in Removing, ~Walking(r),
         stage = "mkdir" => req[r].kind = "clear" /\ req[r].stage = "remake",
         stage = "answer" => req[r].stage = "rm",
         UNCHANGED <<storageVars, phase, flds, deps, condemned, diskVars, slots>>,
         StorageP!AliveInv'
  PROVE  Inv'
<1>0. OwnTypeOK /\ Proper(r) /\ Deleted(r) /\ Entered(r) /\ req[r].stage # "free"
  BY DEF Inv, Proper, Removing
<1>1. /\ req' \in [Req -> Request]
      /\ req'[r].kind = req[r].kind /\ req'[r].name = req[r].name
      /\ req'[r].folder = req[r].folder /\ req'[r].slot = req[r].slot
      /\ req'[r].stage = stage /\ req'[r].ok = ok
      /\ \A x \in Req \ {r} : req'[x] = req[x]
  BY <1>0, Goes
<1>2. \A t \in Slot : (Live(t)' <=> Live(t)) /\ (Shut(t)' <=> Shut(t))
  BY DEF Live, Shut, storageVars
<1>3. ASSUME NEW t \in Slot PROVE Filed(t)'
  BY <1>2, FiledKept DEF Inv, storageVars, diskVars
<1>4. Proper(r)' /\ Deleted(r)' /\ Entered(r)' /\ ~Walking(r)'
  BY <1>0, <1>1, <1>2 DEF Proper, Deleted, Entered, Walking, Walks, Removing, storageVars
<1>5. OwnTypeOK'
  BY <1>0, <1>1 DEF OwnTypeOK, diskVars
<1>6. Proceeds(r)
  BY <1>0, <1>1, <1>4 DEF Proceeds
<1>7. Quiet(r)
  BY <1>1, <1>2 DEF Quiet, Makes, Removes, storageVars, diskVars
<1> QED
  BY <1>2, <1>3, <1>4, <1>5, <1>6, <1>7, QuietKeeps

LEMMA RmFailsKeeps ==
  ASSUME Inv, NEW r \in Req, RmFails(r), StorageP!AliveInv'
  PROVE  Inv'
BY OnlyGoes DEF RmFails, At, Walking, Walks, Removing

LEMMA RemakeKeeps ==
  ASSUME Inv, NEW r \in Req, Remake(r), StorageP!AliveInv'
  PROVE  Inv'
BY OnlyGoes DEF Remake, At, Walking, Removing

LEMMA OpenFileKeeps ==
  ASSUME Inv, NEW r \in Req, OpenFile(r), StorageP!AliveInv'
  PROVE  Inv'
<1>0. /\ OwnTypeOK /\ Proper(r) /\ Deleted(r) /\ Entered(r) /\ ~spinning
      /\ req[r].stage = "open" /\ req[r].kind = "start"
      /\ UNCHANGED <<storageVars, phase, flds, deps, condemned, disk>>
  BY DEF Inv, OpenFile, At
<1>1. PICK s \in Slot : s = req[r].slot
  BY <1>0 DEF Proper
<1>2. slots[s].name = req[r].name
  BY <1>0, <1>1 DEF Proper
<1>3. \A t \in Slot : Live(t)' <=> Live(t)
  BY <1>0 DEF storageVars, Live
<1>4. PICK opened \in BOOLEAN :
        /\ files' = IF opened THEN files \cup {s} ELSE files
        /\ slots' = IF opened THEN [slots EXCEPT ![s].fh = TRUE, ![s].open = TRUE] ELSE slots
        /\ Goto(r, "answer", opened)
  BY <1>1 DEF OpenFile
<1>5. /\ slots' \in [Slot -> Members]
      /\ \A t \in Slot : slots'[t].name = slots[t].name /\ slots'[t].folder = slots[t].folder
      /\ \A t \in Slot \ {s} : slots'[t] = slots[t]
      /\ slots'[s] = slots[s] \/ (slots'[s].fh /\ slots'[s].open /\ s \in files')
  BY <1>0, <1>4, FileFlags DEF OwnTypeOK
<1>6. /\ req' \in [Req -> Request]
      /\ req'[r].kind = req[r].kind /\ req'[r].name = req[r].name
      /\ req'[r].folder = req[r].folder /\ req'[r].slot = req[r].slot
      /\ req'[r].stage = "answer"
      /\ \A x \in Req \ {r} : req'[x] = req[x]
  BY <1>0, <1>4, Goes
<1>7. ASSUME NEW t \in Slot PROVE Filed(t)'
  <2>2. CASE slots'[t] = slots[t]
    BY <1>0, <1>4, <1>3, <2>2, FiledKept DEF Inv, storageVars
  <2> QED
    BY <1>5, <2>2 DEF Filed
<1>8. Proper(r)' /\ Deleted(r)' /\ Entered(r)' /\ ~Walking(r)'
  BY <1>0, <1>1, <1>5, <1>6
  DEF Proper, Deleted, Entered, Walking, Walks, Removing, storageVars
<1>9. OwnTypeOK'
  BY <1>0, <1>1, <1>4, <1>5, <1>6 DEF OwnTypeOK
<1>10. Proceeds(r)
  BY <1>0, <1>6, <1>8 DEF Proceeds
<1>11. Quiet(r)
  BY <1>0, <1>2, <1>3, <1>4, <1>5, <1>6 DEF Quiet, Makes, Removes, storageVars
<1> QED
  BY <1>0, <1>7, <1>8, <1>9, <1>10, <1>11, QuietKeeps DEF Removing

LEMMA AnswerKeeps ==
  ASSUME Inv, NEW r \in Req, Answer(r), StorageP!AliveInv'
  PROVE  Inv'
<1>0. /\ OwnTypeOK /\ Proper(r) /\ ~spinning /\ req[r].stage = "answer"
      /\ req' = [req EXCEPT ![r] = Free]
      /\ UNCHANGED <<phase, flds, deps, condemned, diskVars, slots>>
  BY DEF Inv, Answer
<1>1. /\ req' \in [Req -> Request] /\ req'[r] = Free
      /\ \A x \in Req \ {r} : req'[x] = req[x]
  <2>1. Free \in Request
    BY DEF Free, Request
  <2> QED
    BY <1>0, <2>1 DEF OwnTypeOK
<1>2. m \in [Id -> Slot \cup {Null}] /\ held \in [Req -> Slot \cup {Null}]
  BY StorageRefers DEF Inv, Referred
<1>3. /\ UNCHANGED <<mem, destroy_task, to_erase, spinning>>
      /\ held'[r] = Null /\ \A x \in Req \ {r} : held'[x] = held[x]
      /\ \A t \in Slot : /\ Live(t)' => Live(t)
                         /\ slots[t].name # req[r].name => (Live(t)' <=> Live(t))
  <2>1. CASE req[r].kind = "start"
    BY <1>0, <1>2, <2>1 DEF Answer, Transfers!DropPtr, Live
  <2>2. CASE req[r].kind = "end"
    <3>1. /\ held[r] = Null /\ req[r].id \in Id /\ req[r].slot \in Slot
          /\ slots[req[r].slot].name = req[r].name
      BY <1>0, <2>2 DEF Proper, Walking
    <3>2. m[req[r].id] = req[r].slot /\ Transfers!Erase(req[r].id)
      BY <2>2 DEF Answer
    <3> QED
      BY <1>0, <1>2, <3>1, <3>2, NullAssumption DEF Transfers!Erase, Live
  <2>3. CASE req[r].kind \notin {"start", "end"}
    BY <1>0, <1>2, <2>3 DEF Answer, storageVars, Live, Proper, Walking, Walks
  <2> QED
    BY <2>1, <2>2, <2>3
<1>4. \A t \in Slot : Shut(t) => Shut(t)'
  BY <1>0, <1>3 DEF Shut
<1>5. ASSUME NEW t \in Slot PROVE Filed(t)'
  BY <1>0, <1>3, FiledKept DEF Inv, diskVars
<1>6. Proper(r)' /\ Deleted(r)' /\ Entered(r)' /\ ~Walking(r)'
  BY <1>1, <1>3 DEF Proper, Deleted, Entered, Walking, Removing, Free
<1>7. OwnTypeOK'
  BY <1>0, <1>1 DEF OwnTypeOK, diskVars
<1>8. Proceeds(r)
  BY <1>0, <1>1 DEF Proceeds, Free
<1>9. Quiet(r)
  BY <1>0, <1>1, <1>3 DEF Quiet, Makes, Removes, diskVars, Free
<1> QED
  BY <1>4, <1>5, <1>6, <1>7, <1>8, <1>9, QuietKeeps

\* A step that concerns a directory or its entry, and no upload.
LEMMA DirectoryKeeps ==
  ASSUME Inv, NEW r \in Req, NEW n \in Name, n = req[r].name, ~spinning,
         NEW stage \in {"emplace", "erase", "remake", "answer"}, NEW ok \in BOOLEAN,
         Goto(r, stage, ok), ~Walking(r), req[r].kind \in {"create", "delete", "clear"},
         UNCHANGED <<storageVars, phase, deps, files, slots>>, StorageP!AliveInv',
         OwnTypeOK /\ req' \in [Req -> Request] => OwnTypeOK',
         \A k \in Name \ {n} : flds'[k] = flds[k] /\ (k \in disk' <=> k \in disk),
         Entries',
         stage = "emplace" => req[r].kind = "create",
         stage = "erase" => req[r].kind = "delete" /\ req[r].stage = "rm",
         stage = "remake" => req[r].kind = "clear",
         \A x \in Req : req[x].name = n => Entered(x)',
         Matched(n)'
  PROVE  Inv'
<1>0. /\ OwnTypeOK /\ Proper(r) /\ Deleted(r) /\ req[r].stage # "free" /\ phase = "ready"
  BY DEF Inv, Proper
<1>1. /\ req' \in [Req -> Request]
      /\ req'[r].kind = req[r].kind /\ req'[r].name = req[r].name
      /\ req'[r].folder = req[r].folder /\ req'[r].slot = req[r].slot
      /\ req'[r].stage = stage /\ req'[r].ok = ok
      /\ \A x \in Req \ {r} : req'[x] = req[x]
  BY <1>0, Goes
<1>2. \A t \in Slot : (Live(t)' <=> Live(t)) /\ (Shut(t)' <=> Shut(t))
  BY DEF Live, Shut, storageVars
<1>3. ASSUME NEW t \in Slot PROVE Filed(t)'
  BY <1>2, FiledKept DEF Inv, storageVars
<1>4. Proper(r)' /\ Deleted(r)' /\ ~Walking(r)'
  BY <1>0, <1>1, <1>2 DEF Proper, Deleted, Walking, Walks, Removing, storageVars
<1>5. Owned'
  BY OwnedKept DEF Inv, storageVars
<1>6. Proceeds(r)
  BY <1>0, <1>1, <1>4 DEF Proceeds
<1>7. Frame(r, n)
  BY <1>0, <1>1, <1>2 DEF Frame, storageVars
<1>8. ASSUME NEW x \in Req \ {r}, req[x].name = n PROVE Deleted(x)' /\ Entered(x)'
  <2>1. Deleted(x)'
    BY <1>0, <1>1, <1>2, <1>8, DeletedOthers DEF storageVars
  <2> QED
    BY <1>8, <2>1
<1>9. Entered(r)' /\ OwnTypeOK'
  BY <1>0, <1>1
<1> QED
  BY <1>3, <1>4, <1>5, <1>6, <1>7, <1>8, <1>9, FrameKeeps DEF storageVars

\* Where nothing is removed or entered twice: what a request of some kind
\* knows about the others.
LEMMA WhoElse ==
  ASSUME Inv, NEW r \in Req, NEW n \in Name, n = req[r].name, req[r].stage # "free"
  PROVE  /\ req[r].kind \in Using =>
              /\ Removers(n) = {}
              /\ \A x \in Req : req[x].name = n => req[x].kind \notin Removing
         /\ req[r].kind \in Removing => Makers(n) = {}
<1>1. ASSUME NEW x \in Req, req[x].stage \in {"erase", "remake"}
                             \/ (req[x].kind = "clear" /\ req[x].stage = "mkdir")
      PROVE  req[x].kind \in Removing
  BY <1>1 DEF Inv, OwnTypeOK, Request, Proper, Removing, Walks
<1>2. ASSUME NEW x \in Req, req[x].stage = "emplace" PROVE req[x].kind \in Using
  BY <1>2 DEF Inv, OwnTypeOK, Request, Proper, Using, Walks
<1> QED
  BY <1>1, <1>2 DEF Inv, Exclusive, Makers, Removers

LEMMA MkdirKeeps ==
  ASSUME "recreate" \notin Faults, Inv, NEW r \in Req, Mkdir(r), StorageP!AliveInv'
  PROVE  Inv'
<1>0. /\ OwnTypeOK /\ Proper(r) /\ ~Walking(r) /\ ~spinning /\ phase = "ready"
      /\ req[r].stage = "mkdir" /\ req[r].kind \in {"create", "clear"}
      /\ UNCHANGED <<storageVars, phase, flds, deps, condemned, files, slots>>
  BY DEF Inv, Mkdir, At, Walking, Proper
<1>1. PICK n \in Name : n = req[r].name
  BY <1>0 DEF Proper
<1>2. PICK made \in BOOLEAN :
        /\ made => n \notin disk
        /\ ~made => req[r].kind = "create" \/ n \in disk
        /\ disk' = IF made THEN disk \cup {n} ELSE disk
        /\ Goto(r, IF made /\ req[r].kind = "create" THEN "emplace" ELSE "answer", made)
  BY <1>1 DEF Mkdir
<1>3. PICK stage \in {"emplace", "answer"} :
        Goto(r, stage, made) /\ (stage = "emplace" <=> made /\ req[r].kind = "create")
  BY <1>2
<1>4. /\ req'[r].kind = req[r].kind /\ req'[r].name = req[r].name
      /\ req'[r].folder = req[r].folder /\ req'[r].stage = stage
      /\ \A x \in Req \ {r} : req'[x] = req[x]
  BY <1>0, <1>3, Goes
<1>5. Matched(n) /\ (made => n \in disk') /\ (~made => disk' = disk)
  BY <1>2 DEF Inv
<1>6. Matched(n)'
  <2>1. CASE ~made
    <3>1. req[r].kind = "create" \/ n \in disk
      BY <1>2, <2>1
    <3>2. CASE req[r].kind = "create"
      <4>1. Makers(n)' = Makers(n) /\ Removers(n)' = Removers(n)
        BY <1>0, <1>3, <1>4, <2>1, <3>2 DEF Makers, Removers
      <4> QED
        BY <1>0, <1>5, <2>1, <4>1 DEF Matched, One
    <3>3. CASE req[r].kind = "clear" /\ n \in disk
      <4>1. r \in Removers(n)
        BY <1>0, <1>1, <3>3 DEF Removers
      <4> QED
        BY <1>0, <1>5, <3>3, <4>1 DEF Matched
    <3> QED
      BY <1>0, <3>1, <3>2, <3>3
  <2>2. CASE made /\ req[r].kind = "create"
    <3>1. /\ Removers(n) = {} /\ Removers(n)' = Removers(n)
          /\ Makers(n)' = Makers(n) \cup {r}
      BY <1>0, <1>1, <1>3, <1>4, <2>2, WhoElse DEF Using, Makers, Removers
    <3>2. flds[n] = Null /\ Makers(n) = {}
      BY <1>0, <1>2, <1>5, <2>2, <3>1 DEF Matched, One
    <3> QED
      BY <1>0, <1>5, <2>2, <3>1, <3>2 DEF Matched, One
  <2>3. CASE made /\ req[r].kind = "clear"
    <3>1. r \in Removers(n)
      BY <1>0, <1>1, <2>3 DEF Removers
    <3>2. flds[n] # Null /\ Removers(n) = {r} /\ Makers(n) = {}
      BY <1>0, <1>5, <3>1 DEF Matched, One
    <3>3. Removers(n)' = {} /\ Makers(n)' = {}
      BY <1>0, <1>1, <1>3, <1>4, <2>3, <3>2 DEF Makers, Removers
    <3> QED
      BY <1>0, <1>5, <2>3, <3>2, <3>3 DEF Matched
  <2> QED
    BY <1>0, <2>1, <2>2, <2>3
<1>7. Entries'
  <2>1. \A s \in Slot : Live(s)' => Live(s) /\ mem[s] = "allocated"
    BY <1>0, LiveIsAllocated DEF Live, storageVars
  <2> QED
    BY <1>0, <2>1, EntriesKept DEF Inv, storageVars
<1>8. ASSUME NEW x \in Req, req[x].name = n PROVE Entered(x)'
  <2>1. CASE x = r
    BY <1>0, <1>3, <1>4, <2>1 DEF Entered
  <2>2. CASE x # r
    BY <1>0, <1>4, <2>2 DEF Inv, Entered
  <2> QED
    BY <2>1, <2>2
<1>9. OwnTypeOK /\ req' \in [Req -> Request] => OwnTypeOK'
  BY <1>0, <1>2 DEF OwnTypeOK
<1> QED
  BY <1>0, <1>1, <1>2, <1>3, <1>6, <1>7, <1>8, <1>9, DirectoryKeeps

\* A fresh folder under a name that has none.
LEMMA FreshEntry ==
  ASSUME Inv, NEW n \in Name, NEW f \in Folder, Fresh(f), flds[n] = Null,
         flds' = [flds EXCEPT ![n] = f], UNCHANGED <<m, mem, slots>>
  PROVE  Entries'
<1>1. /\ flds'[n] = f /\ \A k \in Name \ {n} : flds'[k] = flds[k] /\ flds[k] # f
  BY DEF Inv, OwnTypeOK, Fresh
<1>2. \A s \in Slot : mem[s] = "allocated" => slots[s].folder # f
  BY DEF Inv, Owned, Listed, Fresh
<1>3. \A s \in Slot : Live(s)' => Live(s) /\ mem[s] = "allocated"
  BY LiveIsAllocated DEF Live
<1>4. \A s \in Slot : Live(s) => slots[s].name # n /\ slots[s].name \in Name
  BY <1>3, LiveIsAllocated, NullAssumption DEF Inv, Entries, Owned
<1>5. \A s \in Slot, k \in Name : mem'[s] = "allocated" /\ flds'[k] = slots'[s].folder =>
        k = slots'[s].name
  BY <1>1, <1>2 DEF Inv, Entries
<1>6. \A k, l \in Name : flds'[k] # Null /\ flds'[k] = flds'[l] => k = l
  BY <1>1 DEF Inv, Entries
<1>7. \A s \in Slot : Live(s)' => flds'[slots'[s].name] = slots'[s].folder
  BY <1>1, <1>3, <1>4 DEF Inv, Entries
<1> QED
  BY <1>5, <1>6, <1>7 DEF Entries

LEMMA EmplaceFolderKeeps ==
  ASSUME Inv, NEW r \in Req, EmplaceFolder(r), StorageP!AliveInv'
  PROVE  Inv'
<1>0. /\ OwnTypeOK /\ Proper(r) /\ ~Walking(r) /\ ~spinning /\ phase = "ready"
      /\ req[r].stage = "emplace" /\ req[r].kind = "create"
      /\ Goto(r, "answer", TRUE)
      /\ UNCHANGED <<storageVars, phase, deps, condemned, diskVars, slots>>
  BY DEF Inv, EmplaceFolder, At, Walking, Proper
<1>1. PICK n \in Name : n = req[r].name
  BY <1>0 DEF Proper
<1>2. Matched(n) /\ r \in Makers(n)
  BY <1>0, <1>1 DEF Inv, Makers
<1>3. flds[n] = Null /\ n \in disk /\ Makers(n) = {r} /\ Removers(n) = {}
  BY <1>0, <1>2 DEF Matched, One
<1>4. PICK f \in Folder : Fresh(f) /\ flds' = [flds EXCEPT ![n] = f]
  BY <1>1, <1>3 DEF EmplaceFolder
<1>5. /\ flds \in [Name -> Folder \cup {Null}]
      /\ flds'[n] = f /\ \A k \in Name \ {n} : flds'[k] = flds[k] /\ flds[k] # f
  BY <1>0, <1>4 DEF OwnTypeOK, Fresh
<1>6. /\ req'[r].kind = req[r].kind /\ req'[r].name = req[r].name
      /\ req'[r].stage = "answer"
      /\ \A x \in Req \ {r} : req'[x] = req[x]
  BY <1>0, Goes
<1>7. Matched(n)'
  <2>1. Makers(n)' = {} /\ Removers(n)' = {}
    BY <1>0, <1>3, <1>6 DEF Makers, Removers
  <2> QED
    BY <1>0, <1>3, <1>5, <2>1, NullAssumption DEF Matched, diskVars
<1>8. Entries'
  BY <1>0, <1>3, <1>4, FreshEntry DEF storageVars
<1>9. ASSUME NEW x \in Req, req[x].name = n PROVE Entered(x)'
  <2>1. req[x].kind \notin Removing
    BY <1>0, <1>1, <1>9, WhoElse DEF Using
  <2> QED
    BY <1>6, <2>1 DEF Entered
<1>10. OwnTypeOK /\ req' \in [Req -> Request] => OwnTypeOK'
  BY <1>0, <1>4 DEF OwnTypeOK, diskVars
<1> QED
  BY <1>0, <1>1, <1>5, <1>7, <1>8, <1>9, <1>10, DirectoryKeeps DEF diskVars

LEMMA RmDoneKeeps ==
  ASSUME Inv, NEW r \in Req, RmDone(r), StorageP!AliveInv'
  PROVE  Inv'
<1>0. /\ OwnTypeOK /\ Proper(r) /\ ~Walking(r) /\ ~spinning /\ phase = "ready"
      /\ req[r].stage = "rm" /\ req[r].kind \in Removing
      /\ UNCHANGED <<storageVars, phase, flds, deps, condemned, files, slots>>
  BY DEF Inv, RmDone, At, Walking, Walks, Proper, Removing
<1>1. PICK n \in Name : n = req[r].name
  BY <1>0 DEF Proper
<1>2. n \in disk /\ disk' = disk \ {n} /\ Makers(n) = {} /\ Matched(n) /\ Entered(r)
  BY <1>0, <1>1, WhoElse DEF RmDone, Inv
<1>3. flds[n] = req[r].folder /\ flds[n] # Null /\ Removers(n) = {}
  BY <1>0, <1>1, <1>2 DEF Matched, One, Entered
<1>4. PICK stage \in {"erase", "remake"} :
        Goto(r, stage, TRUE) /\ (req[r].kind = "delete" <=> stage = "erase")
  BY DEF RmDone
<1>5. /\ req'[r].kind = req[r].kind /\ req'[r].name = req[r].name
      /\ req'[r].folder = req[r].folder /\ req'[r].stage = stage
      /\ \A x \in Req \ {r} : req'[x] = req[x]
  BY <1>0, <1>4, Goes
<1>6. Matched(n)'
  <2>1. Makers(n)' = {} /\ Removers(n)' = {r}
    BY <1>0, <1>1, <1>2, <1>3, <1>4, <1>5 DEF Makers, Removers
  <2> QED
    BY <1>0, <1>2, <1>3, <2>1 DEF Matched, One
<1>7. Entries'
  <2>1. \A s \in Slot : Live(s)' => Live(s) /\ mem[s] = "allocated"
    BY <1>0, LiveIsAllocated DEF Live, storageVars
  <2> QED
    BY <1>0, <2>1, EntriesKept DEF Inv, storageVars
<1>8. ASSUME NEW x \in Req, req[x].name = n PROVE Entered(x)'
  <2>1. CASE x = r
    BY <1>0, <1>1, <1>3, <1>5, <2>1 DEF Entered
  <2>2. CASE x # r
    BY <1>0, <1>5, <2>2 DEF Inv, Entered
  <2> QED
    BY <2>1, <2>2
<1>9. OwnTypeOK /\ req' \in [Req -> Request] => OwnTypeOK'
  BY <1>0, <1>2 DEF OwnTypeOK
<1> QED
  BY <1>0, <1>1, <1>2, <1>4, <1>6, <1>7, <1>8, <1>9, DirectoryKeeps DEF Removing

LEMMA EraseFolderKeeps ==
  ASSUME Inv, NEW r \in Req, EraseFolder(r), StorageP!AliveInv'
  PROVE  Inv'
<1>0. /\ OwnTypeOK /\ Proper(r) /\ ~Walking(r) /\ ~spinning /\ phase = "ready"
      /\ req[r].stage = "erase" /\ req[r].kind = "delete" /\ req[r].folder \in Folder
      /\ Goto(r, "answer", TRUE)
      /\ UNCHANGED <<storageVars, phase, deps, diskVars, slots>>
  BY DEF Inv, EraseFolder, At, Walking, Walks, Proper, Removing
<1>1. PICK n \in Name : n = req[r].name
  BY <1>0 DEF Proper
<1>2. Matched(n) /\ r \in Removers(n) /\ Deleted(r)
  BY <1>0, <1>1 DEF Inv, Removers
<1>3. flds[n] # Null /\ n \notin disk /\ Removers(n) = {r} /\ Makers(n) = {}
  BY <1>0, <1>2 DEF Matched, One
<1>4. /\ flds \in [Name -> Folder \cup {Null}]
      /\ flds' = [flds EXCEPT ![n] = Null]
      /\ condemned' = Append(condemned, req[r].folder)
  BY <1>0, <1>1 DEF OwnTypeOK, EraseFolder
<1>5. flds'[n] = Null /\ \A k \in Name \ {n} : flds'[k] = flds[k]
  BY <1>4
<1>6. /\ req'[r].kind = req[r].kind /\ req'[r].name = req[r].name
      /\ req'[r].stage = "answer"
      /\ \A x \in Req \ {r} : req'[x] = req[x]
  BY <1>0, Goes
<1>7. Matched(n)'
  <2>1. Makers(n)' = {} /\ Removers(n)' = {}
    BY <1>0, <1>3, <1>6 DEF Makers, Removers
  <2> QED
    BY <1>0, <1>3, <1>5, <2>1 DEF Matched, diskVars
<1>8. Entries'
  <2>1. \A s \in Slot : Live(s)' => Live(s) /\ mem[s] = "allocated"
    BY <1>0, LiveIsAllocated DEF Live, storageVars
  <2>2. \A s \in Slot : Live(s)' => slots[s].name # n
    BY <1>0, <1>1, <1>2, <2>1 DEF Deleted, Shut
  <2> QED
    BY <1>0, <1>5, <2>1, <2>2, EntriesKept DEF Inv, storageVars
<1>9. ASSUME NEW x \in Req, req[x].name = n PROVE Entered(x)'
  <2>1. x # r => req[x].stage \notin {"erase", "remake"}
    BY <1>3, <1>9 DEF Removers
  <2> QED
    BY <1>5, <1>6, <1>9, <2>1 DEF Entered
<1>10. OwnTypeOK /\ req' \in [Req -> Request] => OwnTypeOK'
  BY <1>0, <1>4 DEF OwnTypeOK, diskVars
<1> QED
  BY <1>0, <1>1, <1>5, <1>7, <1>8, <1>9, <1>10, DirectoryKeeps DEF diskVars

-----------------------------------------------------------------------------
\* New requests.
LEMMA WalkFacts ==
  ASSUME Inv, NEW x \in Req, Walking(x)
  PROVE  /\ req[x].slot \in Slot /\ mem[req[x].slot] = "allocated"
         /\ slots[req[x].slot].name = req[x].name
         /\ flds[req[x].name] = req[x].folder /\ req[x].folder \in Folder
         /\ deps[req[x].folder] # <<>>
<1>1. Walk(x) /\ req[x].folder \in Folder
  BY DEF Inv, Proper, Walking, Removing
<1>2. deps[req[x].folder] \in Seq(Slot)
  BY <1>1 DEF Inv, OwnTypeOK
<1>3. PICK i \in 1..Len(deps[req[x].folder]) : deps[req[x].folder][i] = req[x].slot
  BY <1>1 DEF Walk, Position
<1> QED
  BY <1>1, <1>2, <1>3 DEF Walk, Inv, Owned

LEMMA AskKeeps ==
  ASSUME Inv, NEW r \in Req, NEW new \in Request, req[r].stage = "free",
         phase = "ready", req' = [req EXCEPT ![r] = new],
         new.stage \in {"mkdir", "shutdown", "rm", "close"},
         new.kind # "clear" \/ new.stage = "rm",
         UNCHANGED <<storageVars, phase, flds, deps, condemned, diskVars, slots>>,
         Proper(r)', Deleted(r)', Entered(r)', Walking(r)' => Walk(r)', Exclusive',
         StorageP!AliveInv'
  PROVE  Inv'
<1>1. req' \in [Req -> Request] /\ req'[r] = new /\ \A x \in Req \ {r} : req'[x] = req[x]
  BY DEF Inv, OwnTypeOK
<1>2. \A t \in Slot : (Live(t)' <=> Live(t)) /\ (Shut(t)' <=> Shut(t))
  BY DEF Live, Shut, storageVars
<1>3. OwnTypeOK' /\ Owned'
  BY <1>1, OwnedKept DEF Inv, OwnTypeOK, diskVars, storageVars
<1>4. Entries'
  BY <1>2, LiveIsAllocated, EntriesKept DEF Inv, storageVars
<1>5. ASSUME NEW t \in Slot PROVE Filed(t)'
  BY <1>2, FiledKept DEF Inv, storageVars, diskVars
<1>6. ASSUME NEW n \in Name PROVE Matched(n)'
  <2>1. Makers(n)' = Makers(n) /\ Removers(n)' = Removers(n)
    BY <1>1 DEF Makers, Removers
  <2> QED
    BY <2>1, MatchedKept DEF Inv, diskVars
<1>7. ASSUME NEW x \in Req \ {r} PROVE Proper(x)' /\ Deleted(x)' /\ Entered(x)'
  BY <1>1, <1>2 DEF Inv, Proper, Deleted, Entered, Walking, storageVars
<1>8. ASSUME NEW x \in Req \ {r}, Walking(x)' PROVE Walk(x)'
  <2>1. req'[x] = req[x] /\ Walking(x) /\ Walk(x) /\ req[x].folder \in Folder
    BY <1>1, <1>8, WalkFacts DEF Walking, Inv
  <2>2. deps[req[x].folder] \in Seq(Slot)
    BY <2>1 DEF Inv, OwnTypeOK
  <2>3. /\ req'[x].slot \in Slot
        /\ slots'[req'[x].slot].name = req'[x].name
        /\ flds'[req'[x].name] = req'[x].folder
        /\ \E i \in 1..Len(deps'[req'[x].folder]) : Position(x, i)'
    BY <1>2, <2>1, WalkStays
  <2> QED
    BY <1>2, <2>1, <2>3 DEF Walk, storageVars, diskVars
<1> QED
  BY <1>1, <1>3, <1>4, <1>5, <1>6, <1>7, <1>8 DEF Inv

\* what Handle makes of a request
Asked(kind, n, id, s, stage) ==
    [kind |-> kind, name |-> n, folder |-> flds[n], id |-> id, slot |-> s, ok |-> TRUE,
     stage |-> stage]

LEMMA AskedIs ==
  ASSUME OwnTypeOK, NEW r \in Req, NEW new \in Request, req' = [req EXCEPT ![r] = new]
  PROVE  req'[r] = new /\ \A x \in Req \ {r} : req'[x] = req[x]
BY DEF OwnTypeOK

LEMMA FolderCreateKeeps ==
  ASSUME "settled" \in Hub, Inv, NEW r \in Req, NEW n \in Name, FolderCreate(r, n),
         StorageP!AliveInv'
  PROVE  Inv'
<1>0. /\ OwnTypeOK /\ Proper(r) /\ req[r].stage = "free" /\ phase = "ready"
      /\ Handle(r, "create", n, Null, Null, "mkdir")
      /\ UNCHANGED <<storageVars, phase, flds, deps, condemned, diskVars, slots>>
      /\ ~Busy({"delete", "clear"}, n)
  BY DEF Inv, FolderCreate, Handle, Settled
<1>1. PICK new \in Request :
        /\ req' = [req EXCEPT ![r] = new] /\ req'[r] = new
        /\ new.kind = "create" /\ new.name = n /\ new.stage = "mkdir"
        /\ \A x \in Req \ {r} : req'[x] = req[x]
  <2>1. Asked("create", n, Null, Null, "mkdir") \in Request
    BY <1>0 DEF Asked, Request, OwnTypeOK
  <2>2. req' = [req EXCEPT ![r] = Asked("create", n, Null, Null, "mkdir")]
    BY <1>0 DEF Handle, Asked
  <2> QED
    BY <1>0, <2>1, <2>2, AskedIs DEF Asked
<1>2. Proper(r)' /\ Deleted(r)' /\ Entered(r)' /\ ~Walking(r)'
  BY <1>0, <1>1 DEF Proper, Deleted, Entered, Walking, Removing, storageVars
<1>3. Exclusive'
  BY <1>0, <1>1 DEF Inv, Exclusive, Busy, Using, Removing, Walking, storageVars
<1> QED
  BY <1>0, <1>1, <1>2, <1>3, AskKeeps

LEMMA FolderClearKeeps ==
  ASSUME "settled" \in Hub, Prompt, Inv, NEW r \in Req, NEW n \in Name, FolderClear(r, n),
         StorageP!AliveInv'
  PROVE  Inv'
<1>0. /\ OwnTypeOK /\ Proper(r) /\ req[r].stage = "free" /\ phase = "ready"
      /\ Handle(r, "clear", n, Null, Null, "rm") /\ flds[n] \in Folder
      /\ UNCHANGED <<storageVars, phase, flds, deps, condemned, diskVars, slots>>
      /\ ~Busy({"create", "start", "end"}, n)
      /\ \A s \in Slot : mem[s] = "allocated" => slots[s].name # n
  BY DEF Inv, FolderClear, Handle, Settled, Reclaimed, OwnTypeOK
<1>1. PICK new \in Request :
        /\ req' = [req EXCEPT ![r] = new] /\ req'[r] = new
        /\ new.kind = "clear" /\ new.name = n /\ new.folder = flds[n] /\ new.stage = "rm"
        /\ \A x \in Req \ {r} : req'[x] = req[x]
  <2>1. Asked("clear", n, Null, Null, "rm") \in Request
    BY <1>0 DEF Asked, Request, OwnTypeOK
  <2>2. req' = [req EXCEPT ![r] = Asked("clear", n, Null, Null, "rm")]
    BY <1>0 DEF Handle, Asked
  <2> QED
    BY <1>0, <2>1, <2>2, AskedIs DEF Asked
<1>2. Proper(r)' /\ Deleted(r)' /\ Entered(r)' /\ ~Walking(r)'
  BY <1>0, <1>1 DEF Proper, Deleted, Entered, Walking, Removing, storageVars
<1>3. Exclusive'
  <2>1. \A x \in Req : Walking(x) => req[x].name # n
    BY <1>0, WalkFacts
  <2> QED
    BY <1>0, <1>1, <2>1 DEF Inv, Exclusive, Busy, Using, Removing, Walking, storageVars
<1> QED
  BY <1>0, <1>1, <1>2, <1>3, AskKeeps

LEMMA EndTransferKeeps ==
  ASSUME "settled" \in Hub, Inv, NEW r \in Req, NEW id \in Id, EndTransfer(r, id),
         StorageP!AliveInv'
  PROVE  Inv'
<1>1. PICK s \in Slot : s = m[id] /\ Live(s)
  BY StorageRefers DEF EndTransfer, Inv, Referred, Live
<1>2. mem[s] = "allocated" /\ slots[s].name \in Name
  BY <1>1, LiveIsAllocated DEF Inv, Owned
<1>3. PICK n \in Name : n = slots[s].name
  BY <1>2
<1>4. /\ OwnTypeOK /\ Proper(r) /\ req[r].stage = "free" /\ phase = "ready"
      /\ Handle(r, "end", n, id, s, "close")
      /\ UNCHANGED <<storageVars, phase, flds, deps, condemned, diskVars, slots>>
      /\ ~Busy({"delete", "clear"}, n)
  BY <1>1, <1>3 DEF Inv, EndTransfer, Handle, Settled
<1>5. PICK new \in Request :
        /\ req' = [req EXCEPT ![r] = new] /\ req'[r] = new
        /\ new.kind = "end" /\ new.name = n /\ new.stage = "close"
        /\ new.id = id /\ new.slot = s
        /\ \A x \in Req \ {r} : req'[x] = req[x]
  <2>1. Asked("end", n, id, s, "close") \in Request
    BY <1>4 DEF Asked, Request, OwnTypeOK
  <2>2. req' = [req EXCEPT ![r] = Asked("end", n, id, s, "close")]
    BY <1>4 DEF Handle, Asked
  <2> QED
    BY <1>4, <2>1, <2>2, AskedIs DEF Asked
<1>6. Proper(r)' /\ Deleted(r)' /\ Entered(r)' /\ ~Walking(r)'
  BY <1>2, <1>3, <1>4, <1>5 DEF Proper, Deleted, Entered, Walking, Removing, storageVars
<1>7. Exclusive'
  BY <1>4, <1>5 DEF Inv, Exclusive, Busy, Using, Removing, Walking, storageVars
<1> QED
  BY <1>4, <1>5, <1>6, <1>7, AskKeeps

LEMMA FolderDeleteKeeps ==
  ASSUME "settled" \in Hub, Prompt, Inv, NEW r \in Req, NEW n \in Name, FolderDelete(r, n),
         StorageP!AliveInv'
  PROVE  Inv'
<1>0. /\ OwnTypeOK /\ Proper(r) /\ req[r].stage = "free" /\ phase = "ready"
      /\ UNCHANGED <<storageVars, phase, flds, deps, condemned, diskVars, slots>>
      /\ ~Busy({"create", "start", "end"}, n)
      /\ \A s \in Slot : mem[s] = "allocated" /\ slots[s].name = n => Live(s)
      /\ deps[flds[n]] = <<>> \/ ~Busy({"delete"}, n)
      /\ flds[n] # Null
  BY DEF Inv, FolderDelete, Handle, Settled, Reclaimed
<1>1. PICK f \in Folder : f = flds[n]
  BY <1>0 DEF OwnTypeOK
<1>2. PICK q \in Seq(Slot) : q = deps[f]
  BY <1>0 DEF OwnTypeOK
<1>3. PICK slot \in Slot \cup {Null}, stage \in {"shutdown", "rm"} :
        /\ q # <<>> => slot = q[1] /\ stage = "shutdown"
        /\ q = <<>> => slot = Null /\ stage = "rm"
        /\ slot = After(q, Null) /\ stage = StageAfter(q, Null)
  <2>1. CASE q # <<>>
    <3>1. q[1] \in Slot /\ After(q, Null) = q[1]
      BY <2>1 DEF After
    <3> QED
      BY <2>1, <3>1, NullAssumption DEF StageAfter
  <2>2. CASE q = <<>>
    <3>1. After(q, Null) = Null
      BY <2>2 DEF After
    <3> QED
      BY <2>2, <3>1 DEF StageAfter
  <2> QED
    BY <2>1, <2>2
<1>4. PICK new \in Request :
        /\ req' = [req EXCEPT ![r] = new] /\ req'[r] = new
        /\ new.kind = "delete" /\ new.name = n /\ new.folder = f
        /\ new.slot = slot /\ new.stage = stage /\ new.ok = TRUE
        /\ \A x \in Req \ {r} : req'[x] = req[x]
  <2>1. Asked("delete", n, Null, slot, stage) \in Request
    BY <1>0 DEF Asked, Request, OwnTypeOK
  <2>2. req' = [req EXCEPT ![r] = Asked("delete", n, Null, slot, stage)]
    BY <1>1, <1>2, <1>3 DEF FolderDelete, Handle, Asked
  <2> QED
    BY <1>0, <1>1, <2>1, <2>2, AskedIs DEF Asked
<1>5. \A i \in 1..Len(q) : /\ mem[q[i]] = "allocated" /\ slots[q[i]].folder = f
                           /\ slots[q[i]].name = n /\ Live(q[i])
  <2>1. ASSUME NEW i \in 1..Len(q), NEW t \in Slot, t = q[i]
        PROVE  mem[t] = "allocated" /\ slots[t].folder = f /\ slots[t].name = n /\ Live(t)
    <3>1. mem[t] = "allocated" /\ slots[t].folder = f
      BY <1>2, <2>1 DEF Inv, Owned
    <3>2. slots[t].name = n
      BY <1>1, <3>1 DEF Inv, Entries
    <3> QED
      BY <1>0, <3>1, <3>2
  <2> QED
    BY <2>1
<1>6. \A t \in Slot : mem[t] = "allocated" /\ slots[t].name = n =>
        slots[t].folder = f /\ q # <<>>
  <2> SUFFICES ASSUME NEW t \in Slot, mem[t] = "allocated", slots[t].name = n
               PROVE  slots[t].folder = f /\ q # <<>>
    OBVIOUS
  <2>1. slots[t].folder = f /\ Listed(t)
    BY <1>0, <1>1 DEF Inv, Entries, Owned
  <2> QED
    BY <1>2, <2>1 DEF Listed
<1>7. Walking(r)' => Walk(r)'
  <2> SUFFICES ASSUME q # <<>> PROVE Walk(r)'
    BY <1>3, <1>4 DEF Walking, Walks
  <2>1. 1 \in 1..Len(q) /\ slot = q[1] /\ slot \in Slot /\ stage = "shutdown"
    BY <1>3
  <2>2. deps'[req'[r].folder] = q
    BY <1>0, <1>2, <1>4
  <2>3. Position(r, 1)'
    <3>1. ASSUME NEW j \in 1..Len(q)
          PROVE  (j < 1 => Shut(q[j])') /\ (1 < j => Live(q[j])')
      <4>1. Live(q[j])
        BY <1>5
      <4> QED
        BY <1>0, <1>4, <2>2, <4>1 DEF Live, storageVars
    <3> QED
      BY <1>4, <2>1, <2>2, <3>1 DEF Position
  <2> QED
    BY <1>0, <1>1, <1>4, <1>5, <2>1, <2>2, <2>3 DEF Walk, Live, storageVars
<1>8. Deleted(r)'
  BY <1>0, <1>3, <1>4, <1>6 DEF Deleted, storageVars
<1>9. Proper(r)' /\ Entered(r)'
  BY <1>0, <1>1, <1>3, <1>4 DEF Proper, Entered, Walking, Walks, Removing, storageVars
<1>10. Exclusive'
  <2>1. ASSUME NEW x \in Req, Walking(x), req[x].name = n PROVE FALSE
    <3>1. deps[flds[n]] # <<>>
      BY <2>1, WalkFacts
    <3> QED
      BY <1>0, <2>1, <3>1 DEF Busy, Walking
  <2>2. ASSUME Walking(r)', NEW x \in Req \ {r}, req[x].kind \in Removing, req[x].name = n
        PROVE  FALSE
    <3>1. q # <<>>
      BY <1>3, <1>4, <2>2 DEF Walking, Walks
    <3>2. req[x].kind = "clear"
      BY <1>0, <1>1, <1>2, <2>2, <3>1 DEF Busy, Removing
    <3>3. 1 \in 1..Len(q) /\ q[1] \in Slot
      BY <3>1
    <3> QED
      BY <1>5, <2>2, <3>2, <3>3 DEF Inv, Exclusive
  <2>3. \A x \in Req : req[x].kind \in Using => req[x].name # n
    BY <1>0 DEF Busy, Using
  <2> QED
    BY <1>0, <1>4, <2>1, <2>2, <2>3 DEF Inv, Exclusive, Using, Removing, Walking, storageVars
<1> QED
  BY <1>0, <1>3, <1>4, <1>7, <1>8, <1>9, <1>10, AskKeeps

LEMMA StartTransferKeeps ==
  ASSUME "settled" \in Hub, Inv, NEW r \in Req, NEW n \in Name, NEW id \in Id, NEW s \in Slot,
         StartTransfer(r, n, id, s), StorageP!AliveInv'
  PROVE  Inv'
<1>0. /\ OwnTypeOK /\ Proper(r) /\ req[r].stage = "free" /\ phase = "ready" /\ ~spinning
      /\ UNCHANGED <<phase, flds, condemned, diskVars>>
      /\ ~Busy({"delete", "clear"}, n) /\ flds[n] # Null
  BY DEF Inv, StartTransfer, Handle, Settled
<1>1. PICK f \in Folder : f = flds[n]
  BY <1>0 DEF OwnTypeOK
<1>2. PICK new \in Request :
        /\ req' = [req EXCEPT ![r] = new] /\ req'[r] = new
        /\ new.kind = "start" /\ new.name = n /\ new.slot = s /\ new.stage = "open"
        /\ \A x \in Req \ {r} : req'[x] = req[x]
  <2>1. Asked("start", n, id, s, "open") \in Request
    BY <1>0 DEF Asked, Request, OwnTypeOK
  <2>2. req' = [req EXCEPT ![r] = Asked("start", n, id, s, "open")]
    BY DEF StartTransfer, Handle, Asked
  <2> QED
    BY <1>0, <2>1, <2>2, AskedIs, ZenonT(30) DEF Asked
<1>3. /\ mem[s] = "unused" /\ mem' = [mem EXCEPT ![s] = "allocated"]
      /\ m' = [m EXCEPT ![id] = s] /\ m[id] = Null
      /\ held' = [held EXCEPT ![r] = s]
      /\ UNCHANGED <<to_erase, destroy_task>>
      /\ mem \in [Slot -> {"unused", "allocated", "freed"}]
      /\ held \in [Req -> Slot \cup {Null}] /\ m \in [Id -> Slot \cup {Null}]
  BY StorageRefers DEF Inv, Referred, StartTransfer, Transfers!Emplace, Transfers!Allocate
<1>4. /\ mem'[s] = "allocated" /\ \A t \in Slot \ {s} : mem'[t] = mem[t]
      /\ held'[r] = s /\ \A x \in Req \ {r} : held'[x] = held[x]
      /\ \A t \in Slot \ {s} : Live(t)' <=> Live(t)
  BY <1>3, NullAssumption DEF Live
<1>5. /\ slots' \in [Slot -> Members]
      /\ slots'[s].folder = f /\ slots'[s].name = n /\ ~slots'[s].fh /\ ~slots'[s].open
      /\ \A t \in Slot \ {s} : slots'[t] = slots[t]
  <2> DEFINE new1 == [Unused EXCEPT !.folder = f, !.name = n]
  <2>1. /\ new1 \in Members
        /\ new1.folder = f /\ new1.name = n /\ ~new1.fh /\ ~new1.open
    BY DEF Unused, Members
  <2>2. slots' = [slots EXCEPT ![s] = new1]
    BY <1>1 DEF StartTransfer
  <2> HIDE DEF new1
  <2> QED
    BY <1>0, <2>1, <2>2 DEF OwnTypeOK
<1>6. PICK q \in Seq(Slot) : q = deps[f]
  BY <1>0 DEF OwnTypeOK
<1>7. /\ deps' \in [Folder -> Seq(Slot)]
      /\ deps'[f] = Append(q, s) /\ \A g \in Folder \ {f} : deps'[g] = deps[g]
  <2>1. deps' = [deps EXCEPT ![f] = Append(q, s)]
    BY <1>1, <1>6 DEF StartTransfer
  <2> QED
    BY <1>0, <2>1 DEF OwnTypeOK
<1>8. /\ Len(deps'[f]) = Len(q) + 1 /\ deps'[f][Len(q) + 1] = s
      /\ \A i \in 1..Len(q) : deps'[f][i] = q[i] /\ q[i] \in Slot \ {s}
  BY <1>3, <1>6, <1>7 DEF Inv, Owned
<1>9. OwnTypeOK'
  BY <1>0, <1>2, <1>5, <1>7 DEF OwnTypeOK, diskVars
<1>10. Owned'
  <2>1. ASSUME NEW t \in Slot, mem'[t] = "allocated"
        PROVE  slots'[t].folder \in Folder /\ slots'[t].name \in Name /\ Listed(t)'
    <3>1. CASE t = s
      BY <1>5, <1>8, <3>1 DEF Listed
    <3>2. CASE t # s
      <4>1. /\ slots[t].folder \in Folder /\ slots[t].name \in Name /\ Listed(t)
            /\ slots'[t] = slots[t]
        BY <1>4, <1>5, <2>1, <3>2 DEF Inv, Owned
      <4>2. PICK i \in 1..Len(deps[slots[t].folder]) : deps[slots[t].folder][i] = t
        BY <4>1 DEF Listed
      <4>3. CASE slots[t].folder = f
        BY <1>6, <1>8, <4>1, <4>2, <4>3 DEF Listed
      <4>4. CASE slots[t].folder # f
        BY <1>7, <4>1, <4>2, <4>4 DEF Listed
      <4> QED
        BY <4>1, <4>3, <4>4
    <3> QED
      BY <3>1, <3>2
  <2>2. ASSUME NEW g \in Folder, NEW i \in 1..Len(deps'[g])
        PROVE  mem'[deps'[g][i]] = "allocated" /\ slots'[deps'[g][i]].folder = g
    <3>1. CASE g = f /\ i = Len(q) + 1
      BY <1>4, <1>5, <1>8, <3>1
    <3>2. CASE g = f /\ i # Len(q) + 1
      <4>1. i \in 1..Len(q) /\ deps'[g][i] = q[i]
        BY <1>8, <2>2, <3>2
      <4> QED
        BY <1>4, <1>5, <1>6, <1>8, <3>2, <4>1 DEF Inv, Owned
    <3>3. CASE g # f
      <4>1. deps'[g] = deps[g] /\ deps[g][i] \in Slot
        BY <1>0, <1>7, <2>2, <3>3 DEF OwnTypeOK
      <4>2. mem[deps[g][i]] = "allocated" /\ slots[deps[g][i]].folder = g
        BY <2>2, <4>1 DEF Inv, Owned
      <4> QED
        BY <1>3, <1>4, <1>5, <4>1, <4>2
    <3> QED
      BY <3>1, <3>2, <3>3
  <2>3. ASSUME NEW g \in Folder, NEW i \in 1..Len(deps'[g]), NEW j \in 1..Len(deps'[g]),
               deps'[g][i] = deps'[g][j]
        PROVE  i = j
    <3>1. CASE g = f
      BY <1>6, <1>8, <2>3, <3>1, SMTT(30) DEF Inv, Owned
    <3>2. CASE g # f
      BY <1>7, <2>3, <3>2 DEF Inv, Owned
    <3> QED
      BY <3>1, <3>2
  <2> QED
    BY <2>1, <2>2, <2>3 DEF Owned
<1>11. Entries'
  <2>1. \A t \in Slot, k \in Name : mem'[t] = "allocated" /\ flds'[k] = slots'[t].folder =>
          k = slots'[t].name
    BY <1>0, <1>1, <1>4, <1>5 DEF Inv, Entries
  <2>2. \A k, l \in Name : flds'[k] # Null /\ flds'[k] = flds'[l] => k = l
    BY <1>0 DEF Inv, Entries
  <2>3. \A t \in Slot : Live(t)' => flds'[slots'[t].name] = slots'[t].folder
    BY <1>0, <1>1, <1>4, <1>5 DEF Inv, Entries
  <2> QED
    BY <2>1, <2>2, <2>3 DEF Entries
<1>12. ASSUME NEW t \in Slot PROVE Filed(t)'
  <2>2. CASE t = s
    BY <1>5, <2>2 DEF Filed
  <2>3. CASE t # s
    BY <1>0, <1>1, <1>3, <1>4, <1>5, <2>3, FiledKept DEF Inv, Live, diskVars
  <2> QED
    BY <2>2, <2>3
<1>13. Frame(r, n)
  BY <1>0, <1>1, <1>2, <1>3, <1>4, <1>5, <1>7 DEF Frame, diskVars
<1>14. Exclusive'
  <2>1. \A x \in Req : req[x].kind \in Removing => req[x].name # n
    BY <1>0 DEF Busy, Removing
  <2> QED
    BY <1>2, <1>4, <1>5, <2>1 DEF Inv, Exclusive, Using, Removing, Walking
<1>15. Proper(r)' /\ Deleted(r)' /\ Entered(r)' /\ ~Walking(r)'
  BY <1>0, <1>2, <1>4, <1>5 DEF Proper, Deleted, Entered, Walking, Removing
<1>16. ASSUME NEW x \in Req \ {r}
       PROVE  Proper(x)' /\ Deleted(x)' /\ Entered(x)' /\ (Walking(x)' => Walk(x)')
  <2>1. req[x].kind \in Removing => req[x].name # n
    BY <1>0 DEF Busy, Removing
  <2>2. req'[x] = req[x]
    BY <1>2
  <2>3. req[x].kind \notin Removing => Deleted(x)' /\ Entered(x)'
    BY <2>2 DEF Deleted, Entered, Removing
  <2>4. Walking(x)' => Walking(x) /\ req[x].kind \in Removing
    BY <2>2 DEF Walking, Removing
  <2> QED
    BY <1>13, <2>1, <2>3, <2>4, FrameOthers, FrameWalk
<1>17. ASSUME NEW k \in Name PROVE Matched(k)'
  <2>1. CASE k = n
    <3>1. Makers(n)' = Makers(n) /\ Removers(n)' = Removers(n)
      BY <1>0, <1>2 DEF Makers, Removers
    <3> QED
      BY <1>0, <2>1, <3>1, MatchedKept DEF Inv, diskVars
  <2>2. CASE k # n
    BY <1>13, <2>2, FrameNames
  <2> QED
    BY <2>1, <2>2
<1> QED
  BY <1>9, <1>10, <1>11, <1>12, <1>14, <1>15, <1>16, <1>17 DEF Inv

-----------------------------------------------------------------------------
\* What happens before the hub is connected, and what the maps do.
LEMMA LoadingKeeps ==
  ASSUME Inv, Access \/ Load \/ Loaded, StorageP!AliveInv'
  PROVE  Inv'
<1>0. /\ OwnTypeOK /\ UNCHANGED <<storageVars, deps, condemned, diskVars, slots, req>>
      /\ phase \in {"access", "loading"}
      /\ phase' \in {"loading", "ready", "failed"}
  BY DEF Inv, Access, Load, Loaded
<1>1. \A x \in Req : req[x].stage = "free" /\ req[x].kind = "none"
  BY <1>0 DEF Inv, Proper
<1>2. \A n \in Name : Makers(n)' = {} /\ Removers(n)' = {}
  BY <1>0, <1>1 DEF Makers, Removers
<1>3. Entries' /\ flds' \in [Name -> Folder \cup {Null}] /\ \A n \in Name : Matched(n)'
  <2>1. CASE UNCHANGED flds
    <3>1. \A n \in Name : Matched(n)'
      <4>1. \A n \in Name : Matched(n)
        BY DEF Inv
      <4>2. \A n \in Name :
              /\ phase' = "loading" => flds[n] = Null \/ n \in disk
              /\ phase' = "ready" => (flds[n] # Null <=> n \in disk)
        BY <1>0, <2>1, <4>1 DEF Access, Load, Loaded, Matched
      <4> QED
        BY <1>0, <1>2, <2>1, <4>2 DEF Matched, diskVars
    <3>2. Entries' /\ flds' \in [Name -> Folder \cup {Null}]
      <4>1. \A s \in Slot : Live(s)' => Live(s) /\ mem[s] = "allocated"
        BY <1>0, LiveIsAllocated DEF Live, storageVars
      <4> QED
        BY <1>0, <2>1, <4>1, EntriesKept DEF Inv, storageVars, OwnTypeOK
    <3> QED
      BY <3>1, <3>2
  <2>2. CASE ~UNCHANGED flds
    <3>1. PICK n \in disk, f \in Folder :
            /\ flds[n] = Null /\ Fresh(f) /\ n \in Name
            /\ flds' = [flds EXCEPT ![n] = f] /\ phase' = "loading" /\ phase = "loading"
      BY <1>0, <2>2 DEF Access, Load, Loaded, OwnTypeOK
    <3>2. Entries' /\ flds' \in [Name -> Folder \cup {Null}]
      BY <1>0, <3>1, FreshEntry DEF storageVars, OwnTypeOK
    <3>3. \A k \in Name : Matched(k)'
      BY <1>0, <3>1 DEF Inv, Matched, OwnTypeOK, diskVars
    <3> QED
      BY <3>2, <3>3
  <2> QED
    BY <2>1, <2>2
<1>4. OwnTypeOK' /\ Owned'
  BY <1>0, <1>3, OwnedKept DEF Inv, OwnTypeOK, diskVars, storageVars
<1>5. ASSUME NEW t \in Slot PROVE Filed(t)'
  BY <1>0, FiledKept DEF Inv, Live, storageVars, diskVars
<1>6. ASSUME NEW x \in Req
      PROVE  Proper(x)' /\ Deleted(x)' /\ Entered(x)' /\ ~Walking(x)'
  BY <1>0, <1>1 DEF Inv, Proper, Deleted, Entered, Walking, Removing, storageVars
<1>7. Exclusive'
  BY <1>0, <1>1 DEF Exclusive, Using, Removing, Walking
<1> QED
  BY <1>3, <1>4, <1>5, <1>6, <1>7 DEF Inv

\* A step that changes no request, no entry and no directory, and no upload
\* that anyone refers to.
LEMMA UnseenKeeps ==
  ASSUME Inv, UNCHANGED <<phase, flds, deps, disk, req, m, held, mem, spinning>>,
         \A t \in Slot : slots'[t].name = slots[t].name /\ slots'[t].folder = slots[t].folder,
         \A t \in Slot : Shut(t) => Shut(t)',
         \A t \in Slot : Live(t) \/ (\E x \in Req : held[x] = t) =>
             slots'[t] = slots[t] /\ (t \in files => t \in files'),
         \A t \in Slot : Filed(t)',
         OwnTypeOK', StorageP!AliveInv'
  PROVE  Inv'
<1>1. \A t \in Slot : Live(t)' <=> Live(t)
  BY DEF Live
<1>2. Owned' /\ Entries'
  BY <1>1, OwnedKept, EntriesKept, LiveIsAllocated DEF Inv
<1>3. Exclusive'
  BY ExclusiveKept DEF Inv, Walking
<1>4. \A n \in Name : Matched(n)'
  BY MatchedKept DEF Inv, Makers, Removers
<1>5. ASSUME NEW x \in Req PROVE Proper(x)' /\ Deleted(x)' /\ Entered(x)'
  BY DEF Inv, Proper, Deleted, Entered, Walking
<1>6. ASSUME NEW x \in Req, Walking(x)' PROVE Walk(x)'
  <2>1. Walking(x) /\ Walk(x)
    BY <1>6 DEF Inv, Walking
  <2>2. /\ req'[x].slot \in Slot
        /\ slots'[req'[x].slot].name = req'[x].name
        /\ flds'[req'[x].name] = req'[x].folder
        /\ \E i \in 1..Len(deps'[req'[x].folder]) : Position(x, i)'
    BY <1>1, <2>1, WalkStays
  <2>3. PICK s \in Slot : s = req[x].slot
    BY <2>1 DEF Walk
  <2>4. Live(s) \/ held[x] = s
    BY <2>1, <2>3 DEF Walk, Walking, Walks
  <2>5. slots'[s] = slots[s] /\ (s \in files => s \in files') /\ (Live(s)' <=> Live(s))
    BY <1>1, <2>4
  <2> QED
    BY <2>1, <2>2, <2>3, <2>5 DEF Walk
<1> QED
  BY <1>2, <1>3, <1>4, <1>5, <1>6 DEF Inv

LEMMA DestroySlotKeeps ==
  ASSUME Inv, DestroySlot, StorageP!AliveInv'
  PROVE  Inv'
<1>0. /\ OwnTypeOK /\ Referred
      /\ UNCHANGED <<phase, flds, deps, condemned, disk, req, m, held, mem, spinning>>
      /\ destroy_task # Null /\ to_erase = Null /\ to_erase' = destroy_task
  BY StorageRefers DEF Inv, DestroySlot, Transfers!DestroyFinish
<1>1. PICK s \in Slot : s = destroy_task
  BY <1>0 DEF Referred
<1>2. /\ slots' = [slots EXCEPT ![s].open = FALSE]
      /\ files' \in {files, files \ {s}}
  BY <1>1 DEF DestroySlot
<1>3. /\ slots' \in [Slot -> Members]
      /\ slots'[s].name = slots[s].name /\ slots'[s].folder = slots[s].folder
      /\ slots'[s].fh = slots[s].fh /\ ~slots'[s].open
      /\ \A t \in Slot \ {s} : slots'[t] = slots[t]
  BY <1>0, <1>2 DEF OwnTypeOK, Members
<1>4. ASSUME NEW t \in Slot, Live(t) \/ (\E x \in Req : held[x] = t) PROVE t # s
  BY <1>0, <1>1, <1>4, NullAssumption DEF Referred, Live
<1>5. \A t \in Slot : Shut(t) => Shut(t)'
  BY <1>0, <1>3 DEF Shut, Live
<1>6. ASSUME NEW t \in Slot PROVE Filed(t)'
  <2>1. CASE t = s
    BY <1>0, <1>1, <1>3, <2>1 DEF Filed
  <2>2. CASE t # s
    <3>1. Filed(t) /\ t # to_erase /\ slots'[t] = slots[t]
      BY <1>0, <1>3, <2>2, NullAssumption DEF Inv
    <3> QED
      BY <1>0, <1>2, <2>2, <3>1 DEF Filed, Live
  <2> QED
    BY <2>1, <2>2
<1>7. OwnTypeOK'
  BY <1>0, <1>2, <1>3 DEF OwnTypeOK
<1>8. \A t \in Slot : slots'[t].name = slots[t].name /\ slots'[t].folder = slots[t].folder
  BY <1>3
<1>9. \A t \in Slot : Live(t) \/ (\E x \in Req : held[x] = t) =>
        slots'[t] = slots[t] /\ (t \in files => t \in files')
  BY <1>2, <1>3, <1>4
<1> QED
  BY <1>0, <1>5, <1>6, <1>7, <1>8, <1>9, UnseenKeeps

LEMMA IdleKeeps ==
  ASSUME Inv, UNCHANGED <<phase, flds, deps, disk, req, m, held, mem, spinning, to_erase,
                          slots, files>>,
         condemned' \in Seq(Folder), StorageP!AliveInv'
  PROVE  Inv'
<1>1. \A t \in Slot : Filed(t)'
  BY FiledKept DEF Inv, Live
<1>2. \A t \in Slot : Shut(t) => Shut(t)'
  BY DEF Shut, Live
<1>3. OwnTypeOK'
  BY DEF Inv, OwnTypeOK
<1> QED
  BY <1>1, <1>2, <1>3, UnseenKeeps

LEMMA DestroyFolderKeeps ==
  ASSUME Inv, DestroyFolder, StorageP!AliveInv'
  PROVE  Inv'
<1>1. condemned' \in Seq(Folder)
  BY DEF Inv, OwnTypeOK, DestroyFolder
<1> QED
  BY <1>1, IdleKeeps DEF DestroyFolder, storageVars, diskVars

\* A list that one of its slots leaves.
LEMMA WithoutKth ==
  ASSUME NEW q \in Seq(Slot), NEW k \in 1..Len(q), \A i \in 1..Len(q) : q[i] = q[k] => i = k
  PROVE  /\ Without(q, q[k]) \in Seq(Slot)
         /\ Len(Without(q, q[k])) = Len(q) - 1
         /\ \A j \in 1..Len(q) - 1 :
              Without(q, q[k])[j] = IF j < k THEN q[j] ELSE q[j + 1]
<1>1. (CHOOSE i \in 1..Len(q) : q[i] = q[k]) = k
  OBVIOUS
<1>2. Without(q, q[k]) = SubSeq(q, 1, k - 1) \o SubSeq(q, k + 1, Len(q))
  BY <1>1 DEF Without
<1>3. /\ SubSeq(q, 1, k - 1) \in Seq(Slot) /\ Len(SubSeq(q, 1, k - 1)) = k - 1
      /\ \A j \in 1..k - 1 : SubSeq(q, 1, k - 1)[j] = q[j]
  OBVIOUS
<1>4. /\ SubSeq(q, k + 1, Len(q)) \in Seq(Slot)
      /\ Len(SubSeq(q, k + 1, Len(q))) = Len(q) - k
      /\ \A j \in 1..Len(q) - k : SubSeq(q, k + 1, Len(q))[j] = q[k + j]
  OBVIOUS
<1> DEFINE a == SubSeq(q, 1, k - 1)
           b == SubSeq(q, k + 1, Len(q))
<1> HIDE DEF a, b
<1>5. /\ Without(q, q[k]) = a \o b /\ a \in Seq(Slot) /\ b \in Seq(Slot)
      /\ Len(a) = k - 1 /\ Len(b) = Len(q) - k
      /\ \A j \in 1..k - 1 : a[j] = q[j]
      /\ \A j \in 1..Len(q) - k : b[j] = q[k + j]
  BY <1>2, <1>3, <1>4 DEF a, b
<1>6. /\ a \o b \in Seq(Slot) /\ Len(a \o b) = Len(q) - 1
      /\ \A j \in 1..Len(q) - 1 : (a \o b)[j] = IF j <= k - 1 THEN a[j] ELSE b[j - (k - 1)]
  <2>1. /\ a \o b \in Seq(Slot)
        /\ Len(a \o b) = Len(a) + Len(b)
        /\ \A j \in 1..Len(a) + Len(b) :
             (a \o b)[j] = IF j <= Len(a) THEN a[j] ELSE b[j - Len(a)]
    BY <1>5, ConcatProperties
  <2>2. Len(a) + Len(b) = Len(q) - 1
    BY <1>5
  <2> QED
    BY <1>5, <2>1, <2>2
<1>7. ASSUME NEW j \in 1..Len(q) - 1
      PROVE  (a \o b)[j] = IF j < k THEN q[j] ELSE q[j + 1]
  <2>1. CASE j < k
    BY <1>5, <1>6, <2>1
  <2>2. CASE ~(j < k)
    <3>1. j - (k - 1) \in 1..Len(q) - k /\ k + (j - (k - 1)) = j + 1
      BY <2>2
    <3>2. (a \o b)[j] = b[j - (k - 1)]
      BY <1>6, <2>2
    <3> QED
      BY <1>5, <2>2, <3>1, <3>2
  <2> QED
    BY <2>1, <2>2
<1> QED
  BY <1>5, <1>6, <1>7

LEMMA TickKeeps ==
  ASSUME Inv, Tick, StorageP!AliveInv'
  PROVE  Inv'
<1>0. /\ OwnTypeOK /\ Referred /\ ~spinning
      /\ UNCHANGED <<phase, flds, condemned, diskVars, slots, req, m, held, spinning>>
      /\ to_erase' = Null
      /\ mem' = IF to_erase # Null THEN [mem EXCEPT ![to_erase] = "freed"] ELSE mem
      /\ deps' = IF to_erase = Null THEN deps
                 ELSE [deps EXCEPT ![slots[to_erase].folder] = Without(@, to_erase)]
  BY StorageRefers DEF Inv, Tick, Transfers!Tick, Transfers!TickErase
<1>1. CASE to_erase = Null
  BY <1>0, <1>1, IdleKeeps DEF OwnTypeOK, diskVars
<1>2. CASE to_erase # Null
  <2>1. PICK e \in Slot : e = to_erase
    BY <1>0, <1>2 DEF Referred
  <2>2. /\ mem[e] = "allocated" /\ mem'[e] = "freed"
        /\ \A t \in Slot \ {e} : mem'[t] = mem[t]
        /\ \A t \in Slot : (Live(t)' <=> Live(t)) /\ (Shut(t)' <=> Shut(t))
        /\ ~Live(e) /\ \A x \in Req : held[x] # e
    BY <1>0, <2>1, NullAssumption DEF Referred, Live, Shut
  <2>3. PICK f \in Folder : f = slots[e].folder
    BY <2>2 DEF Inv, Owned
  <2>4. PICK q \in Seq(Slot) : q = deps[f]
    BY <1>0 DEF OwnTypeOK
  <2>5. PICK k \in 1..Len(q) : q[k] = e /\ \A i \in 1..Len(q) : q[i] = e => i = k
    <3>1. PICK k \in 1..Len(q) : q[k] = e
      BY <2>2, <2>3, <2>4 DEF Inv, Owned, Listed
    <3> QED
      BY <2>4, <3>1 DEF Inv, Owned
  <2>6. PICK p \in Seq(Slot) :
          /\ p = Without(q, e)
          /\ Len(p) = Len(q) - 1
          /\ \A j \in 1..Len(q) - 1 : p[j] = IF j < k THEN q[j] ELSE q[j + 1]
    BY <2>5, WithoutKth
  <2>7. deps' = [deps EXCEPT ![f] = p]
    BY <1>0, <1>2, <2>1, <2>3, <2>4, <2>6
  <2>8. /\ deps' \in [Folder -> Seq(Slot)] /\ deps'[f] = p
        /\ \A g \in Folder \ {f} : deps'[g] = deps[g]
    BY <1>0, <2>7 DEF OwnTypeOK
  <2>9. \A i \in 1..Len(q) : /\ i < k => i \in 1..Len(p) /\ p[i] = q[i]
                             /\ k < i => i - 1 \in 1..Len(p) /\ p[i - 1] = q[i]
    BY <2>6
  <2>10. \A j \in 1..Len(p) : /\ j < k => j \in 1..Len(q) /\ p[j] = q[j]
                              /\ ~(j < k) => j + 1 \in 1..Len(q) /\ p[j] = q[j + 1] /\ k < j + 1
    BY <2>6
  <2>11. OwnTypeOK'
    BY <1>0, <2>8 DEF OwnTypeOK, diskVars
  <2>12. Owned'
    <3>1. ASSUME NEW t \in Slot, mem'[t] = "allocated"
          PROVE  slots'[t].folder \in Folder /\ slots'[t].name \in Name /\ Listed(t)'
      <4>1. /\ mem[t] = "allocated" /\ t # e
            /\ slots[t].folder \in Folder /\ slots[t].name \in Name /\ Listed(t)
        BY <2>2, <3>1 DEF Inv, Owned
      <4>2. CASE slots[t].folder = f
        <5>1. PICK i \in 1..Len(q) : q[i] = t
          BY <2>4, <4>1, <4>2 DEF Listed
        <5>2. i < k \/ k < i
          BY <2>5, <4>1, <5>1
        <5>3. \E j \in 1..Len(p) : p[j] = t
          BY <2>9, <5>1, <5>2
        <5> QED
          BY <1>0, <2>8, <4>1, <4>2, <5>3 DEF Listed
      <4>3. CASE slots[t].folder # f
        BY <1>0, <2>8, <4>1, <4>3 DEF Listed
      <4> QED
        BY <4>2, <4>3
    <3>2. ASSUME NEW g \in Folder, NEW j \in 1..Len(deps'[g])
          PROVE  mem'[deps'[g][j]] = "allocated" /\ slots'[deps'[g][j]].folder = g
      <4>1. PICK i \in 1..Len(deps[g]) : deps'[g][j] = deps[g][i] /\ (g = f => i # k)
        <5>1. CASE g = f
          <6>1. j < k => j \in 1..Len(q) /\ p[j] = q[j] /\ j # k
            BY <2>8, <2>10, <3>2, <5>1
          <6>2. ~(j < k) => j + 1 \in 1..Len(q) /\ p[j] = q[j + 1] /\ j + 1 # k
            BY <2>8, <2>10, <3>2, <5>1
          <6> QED
            BY <2>4, <2>8, <5>1, <6>1, <6>2
        <5>2. CASE g # f
          BY <2>8, <3>2, <5>2
        <5> QED
          BY <5>1, <5>2
      <4>2. PICK t \in Slot : t = deps[g][i]
        BY <1>0 DEF OwnTypeOK
      <4>3. mem[t] = "allocated" /\ slots[t].folder = g
        BY <4>2 DEF Inv, Owned
      <4>4. t # e
        BY <2>3, <2>4, <2>5, <4>1, <4>2, <4>3
      <4> QED
        BY <1>0, <2>2, <4>1, <4>2, <4>3, <4>4
    <3>3. ASSUME NEW g \in Folder, NEW i \in 1..Len(deps'[g]), NEW j \in 1..Len(deps'[g]),
                 deps'[g][i] = deps'[g][j]
          PROVE  i = j
      <4>1. CASE g = f
        <5>1. PICK a \in 1..Len(q) : p[i] = q[a] /\ a = IF i < k THEN i ELSE i + 1
          BY <2>8, <2>10, <3>3, <4>1
        <5>2. PICK b \in 1..Len(q) : p[j] = q[b] /\ b = IF j < k THEN j ELSE j + 1
          BY <2>8, <2>10, <3>3, <4>1
        <5>3. q[a] = q[b]
          BY <2>8, <3>3, <4>1, <5>1, <5>2
        <5>4. a = b
          BY <2>4, <5>3 DEF Inv, Owned
        <5>5. i \in Nat /\ j \in Nat /\ k \in Nat
          BY <2>8, <4>1
        <5> QED
          BY <5>1, <5>2, <5>4, <5>5
      <4>2. CASE g # f
        BY <2>8, <3>3, <4>2 DEF Inv, Owned
      <4> QED
        BY <4>1, <4>2
    <3> QED
      BY <3>1, <3>2, <3>3 DEF Owned
  <2>13. Entries'
    BY <1>0, <2>2 DEF Inv, Entries
  <2>14. \A t \in Slot : Filed(t)'
    BY <1>0, <2>1, <2>2 DEF Inv, Filed, diskVars
  <2>15. Exclusive'
    <3>1. \A t \in Slot : mem'[t] = "allocated" => mem[t] = "allocated"
      BY <2>2
    <3> QED
      BY <1>0, <3>1, ExclusiveKept DEF Inv, Walking
  <2>16. ASSUME NEW n \in Name PROVE Matched(n)'
    BY <1>0, MatchedKept DEF Inv, Makers, Removers, diskVars
  <2>17. ASSUME NEW x \in Req PROVE Proper(x)' /\ Deleted(x)' /\ Entered(x)'
    BY <1>0, <2>2 DEF Inv, Proper, Deleted, Entered, Walking
  <2>18. ASSUME NEW x \in Req, Walking(x)' PROVE Walk(x)'
    <3>1. /\ Walking(x) /\ Walk(x) /\ req'[x] = req[x] /\ held'[x] = held[x]
          /\ req[x].folder \in Folder
      BY <1>0, <2>18, WalkFacts DEF Inv, Walking
    <3>2. PICK s \in Slot : s = req[x].slot
      BY <3>1 DEF Walk
    <3>3. s # e
      BY <2>2, <3>1, <3>2 DEF Walk, Walking, Walks
    <3>4. PICK g \in Folder : g = req[x].folder
      BY <3>1
    <3>5. deps[g] \in Seq(Slot) /\ deps'[g] \in Seq(Slot)
      BY <1>0, <2>8 DEF OwnTypeOK
    <3>6. PICK i \in 1..Len(deps[g]) :
            /\ deps[g][i] = s
            /\ \A j \in 1..Len(deps[g]) :
                 (j < i => Shut(deps[g][j])) /\ (i < j => Live(deps[g][j]))
      BY <3>1, <3>2, <3>4 DEF Walk, Position
    <3>7. PICK a \in 1..Len(deps'[g]) :
            /\ deps'[g][a] = s
            /\ \A j \in 1..Len(deps'[g]) :
                 (j < a => Shut(deps'[g][j])) /\ (a < j => Live(deps'[g][j]))
      <4>1. CASE g # f
        BY <2>8, <3>6, <4>1
      <4>2. CASE g = f
        <5>1. k < i
          <6>1. ~Live(q[k]) /\ q[i] # q[k]
            BY <2>2, <2>4, <2>5, <3>3, <3>6, <4>2
          <6>2. i # k /\ ~(i < k)
            BY <2>4, <3>6, <4>2, <6>1
          <6> QED
            BY <2>4, <3>6, <4>2, <6>2
        <5>2. i - 1 \in 1..Len(p) /\ p[i - 1] = s
          BY <2>4, <2>9, <3>6, <4>2, <5>1
        <5>3. ASSUME NEW j \in 1..Len(p)
              PROVE  (j < i - 1 => Shut(p[j])) /\ (i - 1 < j => Live(p[j]))
          <6>1. j < i - 1 => j < i /\ j + 1 < i
            BY <2>4, <4>2
          <6>2. i - 1 < j => ~(j < k) /\ i < j + 1
            BY <2>4, <4>2, <5>1
          <6> QED
            BY <2>4, <2>10, <3>6, <4>2, <6>1, <6>2
        <5> QED
          BY <2>8, <4>2, <5>2, <5>3
      <4> QED
        BY <4>1, <4>2
    <3>8. Position(x, a)'
      <4>1. ASSUME NEW j \in 1..Len(deps'[g])
            PROVE  (j < a => Shut(deps[g][j])') /\ (a < j => Live(deps[g][j])')
        <5>1. PICK t \in Slot : t = deps'[g][j]
          BY <3>5
        <5>2. (j < a => Shut(t)) /\ (a < j => Live(t))
          BY <3>7, <5>1
        <5>3. (j < a => Shut(t)') /\ (a < j => Live(t)')
          BY <2>2, <5>2
        <5> QED
          BY <5>1, <5>3 DEF Shut, Live
      <4> QED
        BY <3>1, <3>2, <3>4, <3>7, <4>1 DEF Position
    <3> QED
      BY <1>0, <2>2, <3>1, <3>2, <3>4, <3>7, <3>8 DEF Walk, diskVars
  <2> QED
    BY <2>11, <2>12, <2>13, <2>14, <2>15, <2>16, <2>17, <2>18 DEF Inv
<1> QED
  BY <1>1, <1>2

-----------------------------------------------------------------------------
LEMMA InvStep ==
  ASSUME "settled" \in Hub, Prompt, "recreate" \notin Faults
  PROVE  Inv /\ [Next]_vars => Inv'
<1> SUFFICES ASSUME Inv, [Next]_vars PROVE Inv'
  OBVIOUS
<1>0. StorageP!AliveInv'
  BY StorageKept
<1>1. CASE Access \/ Load \/ Loaded
  BY <1>0, <1>1, LoadingKeeps
<1>2. CASE Requests
  BY <1>0, <1>2, FolderCreateKeeps, FolderDeleteKeeps, FolderClearKeeps, StartTransferKeeps
  DEF Requests
<1>3. CASE Ends
  BY <1>0, <1>3, EndTransferKeeps DEF Ends
<1>4. ASSUME NEW r \in Req, Progress(r) PROVE Inv'
  <2>1. CASE Mkdir(r) \/ EmplaceFolder(r)
    BY <1>0, <2>1, MkdirKeeps, EmplaceFolderKeeps
  <2>2. CASE ShutdownSlot(r) \/ CloseFile(r) \/ UnlinkFile(r) \/ SlotShut(r)
    BY <1>0, <2>2, ShutdownSlotKeeps, CloseFileKeeps, UnlinkFileKeeps, SlotShutKeeps
  <2>3. CASE RmFile(r) \/ RmDone(r) \/ RmFails(r) \/ EraseFolder(r) \/ Remake(r)
    BY <1>0, <2>3, RmFileKeeps, RmDoneKeeps, RmFailsKeeps, EraseFolderKeeps, RemakeKeeps
  <2>4. CASE OpenFile(r) \/ Answer(r)
    BY <1>0, <2>4, OpenFileKeeps, AnswerKeeps
  <2> QED
    BY <1>4, <2>1, <2>2, <2>3, <2>4 DEF Progress
<1>5. CASE Tick \/ DestroySlot \/ DestroyFolder
  BY <1>0, <1>5, TickKeeps, DestroySlotKeeps, DestroyFolderKeeps
<1>6. CASE UNCHANGED vars
  <2>1. condemned' \in Seq(Folder)
    BY <1>6 DEF vars, Inv, OwnTypeOK
  <2> QED
    BY <1>0, <1>6, <2>1, IdleKeeps DEF vars, storageVars, diskVars
<1> QED
  BY <1>1, <1>2, <1>3, <1>4, <1>5, <1>6 DEF Next

LEMMA Invariant ==
  ASSUME "settled" \in Hub, Prompt, "recreate" \notin Faults
  PROVE  Spec => []Inv
BY InitInv, InvStep, PTL DEF Spec

\* Every variable stays in its type (folder.hpp:20-211), if the hub has the
\* answers about a folder before it goes on to another kind of request, the
\* uploads that have ended are freed before it does, and a directory that
\* folder_clear removed can be made again.
THEOREM TypeCorrect ==
  ASSUME "settled" \in Hub, Prompt, "recreate" \notin Faults
  PROVE  Spec => []TypeOK
<1>1. Inv => TypeOK
  BY DEF Inv, TypeOK, Transfers!TypeOK, StorageP!AliveInv, StorageP!CountInv, StorageP!TypeOK
<1> QED
  BY <1>1, Invariant, PTL

\* Under the same conditions an upload is allocated while a file or a deletion
\* refers to it, and otherwise on its way to being freed, once, although the
\* requests take pointers to it out of the folder's list and clear them
\* (folder.hpp:148-149; util/async_storage.hpp:13-19, 41-50).
THEOREM UploadsOutlivePointers ==
  ASSUME "settled" \in Hub, Prompt, "recreate" \notin Faults
  PROVE  Spec => [](StorageP!ReferencedIsAlive /\ StorageP!NoneForgotten)
<1>1. Inv => StorageP!ReferencedIsAlive /\ StorageP!NoneForgotten
  BY StorageP!AliveIsSafe, StorageP!AliveForgetsNone, StorageAssumptions DEF Inv
<1> QED
  BY <1>1, Invariant, PTL

\* Under the same conditions, for any number of folders, uploads and requests
\* at once: the map and the disk agree, up to the one request that is between
\* the two, and iterators kept over a wait stay valid (folder.hpp:113-175).
THEOREM FoldersMatchDisk ==
  ASSUME "settled" \in Hub, Prompt, "recreate" \notin Faults
  PROVE  Spec => []MapMatchesDisk
BY Invariant, InvMatches, PTL

\* Under the same conditions, which keep condemned uploads and new ones out of
\* a walk, the walk of a folder_delete stands on an allocated slot of the list
\* and closes an open descriptor, whatever unlinks fail; and destroy() closes
\* it again only when the unlink has failed (folder.hpp:148-149;
\* fs_transfer.hpp:84-105).
THEOREM WalkIsSafe ==
  ASSUME "settled" \in Hub, Prompt, "recreate" \notin Faults
  PROVE  Spec => []UploadsOutliveWalk
BY Invariant, InvOutlives, PTL
=============================================================================
