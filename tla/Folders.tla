------------------------------ MODULE Folders ------------------------------
(***************************************************************************)
(* The unit's folders (unit/folder.hpp): a map from names to folders, each *)
(* with a directory on disk and a list of the uploads into it.  Requests   *)
(* to create, delete and clear folders and to begin and end uploads are    *)
(* coroutines that wait for the file system between looking at the map and *)
(* changing it.  Uploads are file_transfer_slots in the async_map          *)
(* `transfers`; what happens to their content is in FileTransfer.  A       *)
(* directory is removed as TreeRemoval says.                               *)
(***************************************************************************)
EXTENDS Naturals, Sequences, FiniteSets

CONSTANTS
    Name,     \* names of folders
    TooLong,  \* names of directories that do not fit a folder_name
    Folder,   \* folder_ctx objects, each used once
    Id,       \* transfer ids
    Slot,     \* file_transfer_slot objects, each used once, with their files
    Req,      \* requests that can be in progress at once
    Null,     \* no folder, no slot, no name
    Faults,   \* what can fail: the mkdir of a folder_clear, an unlink
    Hub,      \* what the hub is careful about
    Prompt    \* TRUE: transfers frees what has no pointers any more before the
              \* next request to delete or clear is read or a rm_rf ends

ASSUME TooLongAssumption == TooLong \subseteq Name
ASSUME IdAssumption == Id \subseteq Nat /\ IsFiniteSet(Id)
ASSUME ReqAssumption == IsFiniteSet(Req) /\ Req \cap Id = {}
ASSUME NullAssumption == Null \notin Slot \cup Folder \cup Name
ASSUME FaultsAssumption == Faults \subseteq {"recreate", "unlink"}
ASSUME HubAssumption == Hub \subseteq {"settled"}
ASSUME PromptAssumption == Prompt \in BOOLEAN

VARIABLES
    m, held, cnt, mem, to_del, destroy_task, to_erase, shutdown, spinning,
                \* `transfers`, see AsyncStorage; a request can hold a slot
    phase,      \* folder_init: access, loading, ready, failed
    flds,       \* the folder under each name
    deps,       \* the list of dependents of each folder
    condemned,  \* folders erased from the map and not yet destroyed
    disk,       \* the directories there are
    files,      \* the uploaded files there are: the slots that created them
    slots,      \* the members of each slot
    req         \* the coroutine of each request

storageVars ==
    <<m, held, cnt, mem, to_del, destroy_task, to_erase, shutdown, spinning>>
diskVars == <<disk, files>>
vars == <<storageVars, phase, flds, deps, condemned, diskVars, slots, req>>

Transfers == INSTANCE AsyncStorage WITH
    Key <- Id, Obj <- Slot, Holder <- Req, HeldSource <- FALSE

Free == [kind |-> "none", name |-> Null, folder |-> Null, id |-> Null,
         slot |-> Null, ok |-> FALSE, stage |-> "free"]

Unused == [folder |-> Null, name |-> Null, fh |-> FALSE, open |-> FALSE]

Request ==
    [kind : {"none", "create", "delete", "clear", "start", "end"},
     name : Name \cup {Null}, folder : Folder \cup {Null},
     id : Id \cup {Null}, slot : Slot \cup {Null}, ok : BOOLEAN,
     stage : {"free", "mkdir", "emplace", "shutdown", "close", "unlink",
              "shut", "rm", "erase", "remake", "open", "answer"}]

Members ==
    [folder : Folder \cup {Null}, name : Name \cup {Null}, fh : BOOLEAN, open : BOOLEAN]

OwnTypeOK ==
    /\ phase \in {"access", "loading", "ready", "failed"}
    /\ flds \in [Name -> Folder \cup {Null}]
    /\ deps \in [Folder -> Seq(Slot)]
    /\ condemned \in Seq(Folder)
    /\ disk \subseteq Name
    /\ files \subseteq Slot
    /\ slots \in [Slot -> Members]
    /\ req \in [Req -> Request]

TypeOK == Transfers!TypeOK /\ OwnTypeOK

Init ==
    /\ Transfers!Init
    /\ phase = "access"
    /\ flds = [n \in Name |-> Null]
    /\ deps = [f \in Folder |-> <<>>]
    /\ condemned = <<>>
    /\ disk \in SUBSET Name
    /\ files = {}
    /\ slots = [s \in Slot |-> Unused]
    /\ req = [r \in Req |-> Free]

-----------------------------------------------------------------------------
\* folder_init, before the hub is connected.

Fresh(f) ==
    /\ f \notin {flds[n] : n \in Name}
    /\ \A i \in 1..Len(condemned) : condemned[i] # f
    /\ deps[f] = <<>>

\* the working directory is there, is created, or cannot be used
Access ==
    /\ phase = "access"
    /\ \/ phase' = "loading"
       \/ disk = {} /\ phase' = "ready"
       \/ phase' = "failed"
    /\ UNCHANGED <<storageVars, flds, deps, condemned, diskVars, slots, req>>

Load ==
    /\ phase = "loading"
    /\ \E n \in disk, f \in Folder :
         /\ flds[n] = Null
         /\ Fresh(f)
         /\ IF n \in TooLong
            THEN phase' = "failed" /\ UNCHANGED flds
            ELSE flds' = [flds EXCEPT ![n] = f] /\ UNCHANGED phase
    /\ UNCHANGED <<storageVars, deps, condemned, diskVars, slots, req>>

Loaded ==
    /\ phase = "loading"
    /\ \A n \in disk : flds[n] # Null
    /\ phase' = "ready"
    /\ UNCHANGED <<storageVars, flds, deps, condemned, diskVars, slots, req>>

-----------------------------------------------------------------------------
\* Requests of the hub.  One for an unknown folder or transfer, and one to
\* create what exists or has no proper name, is refused at once.

Live(s) == \E id \in Id : m[id] = s

Busy(kinds, n) == \E r \in Req : req[r].kind \in kinds /\ req[r].name = n

\* A settled hub waits for the answers about a folder and its uploads before
\* it goes on to another kind of request, ends its uploads before it clears,
\* and deletes twice at a time only what has no uploads.
Settled(kind, n) ==
    "settled" \in Hub =>
        /\ kind \in {"delete", "clear"} => ~Busy({"create", "start", "end"}, n)
        /\ kind = "clear" => ~\E s \in Slot : Live(s) /\ slots[s].name = n
        /\ kind \in {"create", "start", "end"} => ~Busy({"delete", "clear"}, n)
        /\ kind = "end" => ~Busy({"end"}, n)
        /\ kind = "delete" => deps[flds[n]] = <<>> \/ ~Busy({"delete"}, n)

\* Of the uploads into n none is condemned: the hub cannot see that, but the
\* ticks of transfers are faster than it.
Reclaimed(n) ==
    \A s \in Slot : mem[s] = "allocated" /\ slots[s].name = n => Live(s)

Handle(r, kind, n, id, s, stage) ==
    /\ phase = "ready"
    /\ ~spinning
    /\ req[r].stage = "free"
    /\ Settled(kind, n)
    /\ req' = [req EXCEPT ![r] =
         [kind |-> kind, name |-> n, folder |-> flds[n], id |-> id, slot |-> s,
          ok |-> TRUE, stage |-> stage]]
    /\ UNCHANGED <<phase, flds, condemned, diskVars>>

FolderCreate(r, n) ==
    /\ flds[n] = Null
    /\ n \notin TooLong
    /\ Handle(r, "create", n, Null, Null, "mkdir")
    /\ UNCHANGED <<storageVars, deps, slots>>

\* defect: the list of dependents is walked from its head again
AfterHead(q, s) == IF q = <<>> THEN Null ELSE q[1]

\* the dependent after s in a list, the first one after Null
After(q, s) ==
    IF s = Null /\ q # <<>> THEN q[1]
    ELSE IF \E i \in 1..Len(q) - 1 : q[i] = s
         THEN q[1 + CHOOSE i \in 1..Len(q) - 1 : q[i] = s]
         ELSE Null

\* where folder_delete goes on after the dependent s
StageAfter(q, s) == IF After(q, s) = Null THEN "rm" ELSE "shutdown"

FolderDelete(r, n) ==
    /\ flds[n] # Null
    /\ Prompt => Reclaimed(n)
    /\ Handle(r, "delete", n, Null, After(deps[flds[n]], Null),
              StageAfter(deps[flds[n]], Null))
    /\ UNCHANGED <<storageVars, deps, slots>>

FolderClear(r, n) ==
    /\ flds[n] # Null
    /\ Prompt => Reclaimed(n)
    /\ Handle(r, "clear", n, Null, Null, "rm")
    /\ UNCHANGED <<storageVars, deps, slots>>

StartTransfer(r, n, id, s) ==
    /\ flds[n] # Null
    /\ Transfers!Emplace(id, s, r)
    /\ Handle(r, "start", n, id, s, "open")
    /\ slots' = [slots EXCEPT ![s] = [Unused EXCEPT !.folder = flds[n], !.name = n]]
    /\ deps' = [deps EXCEPT ![flds[n]] = Append(@, s)]

EndTransfer(r, id) ==
    /\ m[id] # Null
    /\ Handle(r, "end", slots[m[id]].name, id, m[id], "close")
    /\ UNCHANGED <<storageVars, deps, slots>>

-----------------------------------------------------------------------------
\* The coroutines.

Goto(r, stage, ok) == req' = [req EXCEPT ![r].stage = stage, ![r].ok = ok]

At(r, kinds, stage) == ~spinning /\ req[r].kind \in kinds /\ req[r].stage = stage

Mkdir(r) ==
    /\ At(r, {"create", "clear"}, "mkdir")
    /\ \E made \in BOOLEAN :
         /\ made => req[r].name \notin disk
         /\ ~made => req[r].kind = "create" \/ req[r].name \in disk \/ "recreate" \in Faults
         /\ disk' = IF made THEN disk \cup {req[r].name} ELSE disk
         /\ Goto(r, IF made /\ req[r].kind = "create" THEN "emplace" ELSE "answer", made)
    /\ UNCHANGED <<storageVars, phase, flds, deps, condemned, files, slots>>

\* an entry that is there already is left alone
EmplaceFolder(r) ==
    /\ At(r, {"create"}, "emplace")
    /\ \E f \in Folder :
         /\ Fresh(f)
         /\ flds' = [flds EXCEPT ![req[r].name] = IF @ = Null THEN f ELSE @]
    /\ Goto(r, "answer", TRUE)
    /\ UNCHANGED <<storageVars, phase, deps, condemned, diskVars, slots>>

\* file_transfer_slot::shutdown, first its src.get() and src.clear(): the
\* loop of clear() ends only on an empty map or if the slot's entry is first
GetAndClear(r, s) ==
    /\ held[r] = Null
    /\ held' = [held EXCEPT ![r] = s]
    /\ \/ /\ \E id \in Id : Transfers!IsFirst(id) /\ m[id] = s
          /\ m' = [id \in Id |-> IF m[id] = s THEN Null ELSE m[id]]
          /\ UNCHANGED <<cnt, spinning>>
       \/ /\ \A id \in Id : m[id] = Null
          /\ cnt' = [cnt EXCEPT ![s] = @ + 1]
          /\ UNCHANGED <<m, spinning>>
       \/ /\ \E id \in Id : Transfers!IsFirst(id) /\ m[id] # s
          /\ cnt' = [cnt EXCEPT ![s] = @ + 1]
          /\ spinning' = TRUE
          /\ UNCHANGED m
    /\ UNCHANGED <<mem, to_del, destroy_task, to_erase, shutdown>>

ShutdownSlot(r) ==
    /\ At(r, {"delete"}, "shutdown")
    /\ mem[req[r].slot] = "allocated"
    /\ GetAndClear(r, req[r].slot)
    /\ Goto(r, IF slots[req[r].slot].fh THEN "close" ELSE "shut", TRUE)
    /\ UNCHANGED <<phase, flds, deps, condemned, diskVars, slots>>

\* An end that is refused for the size or the hash leaves the file open.
CloseFile(r) ==
    LET s == req[r].slot IN
    /\ At(r, {"delete", "end"}, "close")
    /\ \/ /\ slots[s].open
          /\ req[r].kind = "end"
          /\ slots' = [slots EXCEPT ![s].open = FALSE, ![s].fh = FALSE]
          /\ Goto(r, "answer", TRUE)
       \/ /\ req[r].kind = "end"
          /\ Goto(r, "answer", FALSE)
          /\ UNCHANGED slots
       \/ /\ slots[s].open
          /\ req[r].kind = "delete"
          /\ slots' = [slots EXCEPT ![s].open = FALSE]
          /\ Goto(r, "unlink", TRUE)
    /\ UNCHANGED <<storageVars, phase, flds, deps, condemned, diskVars>>

\* defect: fh is still set when the coroutine ends
UnlinkOnly(r) ==
    /\ At(r, {"delete"}, "unlink")
    /\ files' = files \ {req[r].slot}
    /\ Goto(r, "shut", TRUE)
    /\ UNCHANGED <<storageVars, phase, flds, deps, condemned, disk, slots>>

\* an error of the unlink leaves fh as it is and ends the folder_delete, too
UnlinkFile(r) ==
    LET s == req[r].slot IN
    /\ At(r, {"delete"}, "unlink")
    /\ \/ /\ s \in files
          /\ files' = files \ {s}
          /\ slots' = [slots EXCEPT ![s].fh = FALSE]
          /\ Goto(r, "shut", TRUE)
       \/ /\ s \notin files \/ "unlink" \in Faults
          /\ Goto(r, "shut", FALSE)
          /\ UNCHANGED <<files, slots>>
    /\ UNCHANGED <<storageVars, phase, flds, deps, condemned, disk>>

\* The shutdown of a slot ends and folder_delete steps to the next dependent.
SlotShut(r) ==
    /\ At(r, {"delete"}, "shut")
    /\ Transfers!DropPtr(r)
    /\ LET q == deps[req[r].folder] IN
       \/ /\ req[r].ok
          /\ req' = [req EXCEPT ![r].stage = StageAfter(q, req[r].slot),
                                ![r].slot = After(q, req[r].slot)]
       \/ /\ ~req[r].ok
          /\ req' = [req EXCEPT ![r].stage = "answer", ![r].slot = Null]
    /\ UNCHANGED <<phase, flds, deps, condemned, diskVars, slots>>

FilesIn(n) == {s \in files : slots[s].name = n}

\* a step of fs_rm_rf, see TreeRemoval
RmFile(r) ==
    /\ At(r, {"delete", "clear"}, "rm")
    /\ req[r].name \in disk
    /\ \E s \in FilesIn(req[r].name) : files' = files \ {s}
    /\ UNCHANGED <<storageVars, phase, flds, deps, condemned, disk, slots, req>>

RmDone(r) ==
    /\ At(r, {"delete", "clear"}, "rm")
    /\ Prompt => Reclaimed(req[r].name)
    /\ req[r].name \in disk
    /\ FilesIn(req[r].name) = {}
    /\ disk' = disk \ {req[r].name}
    /\ Goto(r, IF req[r].kind = "delete" THEN "erase" ELSE "remake", TRUE)
    /\ UNCHANGED <<storageVars, phase, flds, deps, condemned, files, slots>>

RmFails(r) ==
    /\ At(r, {"delete", "clear"}, "rm")
    /\ Goto(r, "answer", FALSE)
    /\ UNCHANGED <<storageVars, phase, flds, deps, condemned, diskVars, slots>>

\* the entry is used through the iterator that was found before the waits,
\* see MapMatchesDisk
EraseFolder(r) ==
    /\ At(r, {"delete"}, "erase")
    /\ flds' = [flds EXCEPT ![req[r].name] = Null]
    /\ condemned' = Append(condemned, req[r].folder)
    /\ Goto(r, "answer", TRUE)
    /\ UNCHANGED <<storageVars, phase, deps, diskVars, slots>>

\* defect: the directory is not made again
RemakeNothing(r) ==
    /\ At(r, {"clear"}, "remake")
    /\ Goto(r, "answer", TRUE)
    /\ UNCHANGED <<storageVars, phase, flds, deps, condemned, diskVars, slots>>

Remake(r) ==
    /\ At(r, {"clear"}, "remake")
    /\ Goto(r, "mkdir", TRUE)
    /\ UNCHANGED <<storageVars, phase, flds, deps, condemned, diskVars, slots>>

OpenFile(r) ==
    /\ At(r, {"start"}, "open")
    /\ \E opened \in BOOLEAN :
         /\ opened => req[r].name \in disk
         /\ files' = IF opened THEN files \cup {req[r].slot} ELSE files
         /\ slots' = IF opened
                     THEN [slots EXCEPT ![req[r].slot].fh = TRUE, ![req[r].slot].open = TRUE]
                     ELSE slots
         /\ Goto(r, "answer", opened)
    /\ UNCHANGED <<storageVars, phase, flds, deps, condemned, disk>>

Answer(r) ==
    /\ ~spinning
    /\ req[r].stage = "answer"
    /\ \/ req[r].kind = "start" /\ Transfers!DropPtr(r)
       \/ req[r].kind = "end" /\ m[req[r].id] = req[r].slot /\ Transfers!Erase(req[r].id)
       \/ req[r].kind \notin {"start", "end"} /\ UNCHANGED storageVars
    /\ req' = [req EXCEPT ![r] = Free]
    /\ UNCHANGED <<phase, flds, deps, condemned, diskVars, slots>>

-----------------------------------------------------------------------------
\* The maps: the tick and the destroy() of transfers, in which a slot that is
\* freed leaves the list of its folder, and the destroy() of a folder.

\* s is unlinked from where it is in a list, if it is
Without(q, s) ==
    IF \E i \in 1..Len(q) : q[i] = s
    THEN LET i == CHOOSE i \in 1..Len(q) : q[i] = s
         IN  SubSeq(q, 1, i - 1) \o SubSeq(q, i + 1, Len(q))
    ELSE q

Tick ==
    /\ Transfers!Tick
    /\ deps' = IF to_erase = Null THEN deps
               ELSE [deps EXCEPT ![slots[to_erase].folder] = Without(@, to_erase)]
    /\ UNCHANGED <<phase, flds, condemned, diskVars, slots, req>>

\* destroy() of a slot: close and unlink, either of which can fail
DestroySlot ==
    /\ Transfers!DestroyFinish
    /\ LET s == destroy_task IN
         /\ slots' = [slots EXCEPT ![s].open = FALSE]
         /\ \/ slots[s].fh /\ slots[s].open /\ files' = files \ {s}
            \/ (slots[s].open => ~slots[s].fh \/ "unlink" \in Faults) /\ UNCHANGED files
    /\ UNCHANGED <<phase, flds, deps, condemned, disk, req>>

\* If transfers is prompt its destroy() finds no dependents.
DestroyFolder ==
    /\ ~spinning
    /\ condemned # <<>>
    /\ deps[Head(condemned)] = <<>>
    /\ condemned' = Tail(condemned)
    /\ UNCHANGED <<storageVars, phase, flds, deps, diskVars, slots, req>>

-----------------------------------------------------------------------------
Requests ==
    \E r \in Req, n \in Name :
        \/ FolderCreate(r, n) \/ FolderDelete(r, n) \/ FolderClear(r, n)
        \/ \E id \in Id, s \in Slot : StartTransfer(r, n, id, s)

Ends == \E r \in Req, id \in Id : EndTransfer(r, id)

Progress(r) ==
    \/ Mkdir(r) \/ EmplaceFolder(r)
    \/ ShutdownSlot(r) \/ CloseFile(r) \/ UnlinkFile(r) \/ SlotShut(r)
    \/ RmFile(r) \/ RmDone(r) \/ RmFails(r) \/ EraseFolder(r) \/ Remake(r)
    \/ OpenFile(r) \/ Answer(r)

Next ==
    \/ Access \/ Load \/ Loaded
    \/ Requests \/ Ends
    \/ \E r \in Req : Progress(r)
    \/ Tick \/ DestroySlot \/ DestroyFolder

Spec == Init /\ [][Next]_vars

\* libuv calls back, what is ready is resumed, and the maps tick
Fairness ==
    /\ WF_vars(Access \/ Load \/ Loaded)
    /\ \A r \in Req : WF_vars(Progress(r))
    /\ WF_vars(Tick) /\ WF_vars(DestroySlot) /\ WF_vars(DestroyFolder)

FairSpec == Spec /\ Fairness
=============================================================================
