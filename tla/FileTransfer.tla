---------------------------- MODULE FileTransfer ----------------------------
(***************************************************************************)
(* The unit's file transfers (unit/fs_transfer.hpp): start, data and end   *)
(* requests of the hub, each handled by a coroutine of its own, work on a  *)
(* slot of an async_map; what they do with the slot's file is serialised   *)
(* by the slot's sender fifo.  A file system operation is issued in one    *)
(* step and its callback runs in another; a coroutine that waits is        *)
(* resumed in yet another.  The coroutine that an operation belongs to,    *)
(* which only notes its result, goes on in the step of the callback:       *)
(* nobody else has a turn in the fifo before it has.  No folder is         *)
(* deleted here, so file_transfer_slot::shutdown is in Folders.            *)
(***************************************************************************)
EXTENDS Naturals, Sequences, FiniteSets

CONSTANTS
    Id,       \* transfer ids, the `seq` of the messages
    Slot,     \* file_transfer_slot objects, each used once
    Req,      \* requests that can be in progress at once
    Path,     \* file names, as they are after they were cut at 127 bytes
    Null,     \* no slot, no file, no descriptor, no id
    Stdin,    \* what descriptor 0 is open on
    Fd,       \* file descriptors, 0 and a few more
    Size,     \* declared file sizes, in blocks; a data request has one block
    Offset,   \* offsets of data requests
    Width,    \* 2^64: offset arithmetic is modulo Width
    Chunk,    \* blocks that one fs_read of end() returns at most
    Blocks,   \* bound: blocks of a file that the model keeps
    MaxData,  \* bound: data requests of a transfer that can succeed
    Faults,   \* operations of the file system that can fail
    Hub       \* what the hub is careful about

ASSUME IdAssumption == Id \subseteq Nat /\ IsFiniteSet(Id)
ASSUME ReqAssumption == IsFiniteSet(Req) /\ Req \cap Id = {}
ASSUME NullAssumption == Null \notin Slot /\ Null \notin Req
ASSUME StdinAssumption == Stdin \notin Slot \cup {Null}
ASSUME ChunkAssumption == Chunk \in Nat \ {0}
ASSUME SizeAssumption ==
    Size \subseteq 0..Blocks /\ Blocks \in Nat /\ Width \in Nat /\ 2 * Blocks < Width
ASSUME MaxDataAssumption == MaxData \in Nat
ASSUME OffsetAssumption == Offset \subseteq 0..(Width - 1)
ASSUME FdAssumption == Fd \subseteq Nat /\ IsFiniteSet(Fd) /\ 0 \in Fd
ASSUME FaultsAssumption ==
    Faults \subseteq {"open", "write", "short", "read", "close", "unlink"}
ASSUME HubAssumption ==
    Hub \subseteq {"end_is_last", "one_upload", "awaits_cleanup"}

VARIABLES
    m, held, cnt, mem, to_del, destroy_task, to_erase, shutdown, spinning,
               \* `transfers`, see AsyncStorage
    current, waiters, core, state,
               \* `workers` of every slot, see SenderFifo
    req,       \* the coroutine of each request
    slots,     \* the members of each slot
    fds,       \* descriptor table of the process: file and position
    dir,       \* the file that each path names
    content,   \* the blocks of each file; a file is named by the slot that
               \* created it, a block by the slot whose content it is
    destroyer  \* the coroutine of destroy()

storageVars ==
    <<m, held, cnt, mem, to_del, destroy_task, to_erase, shutdown, spinning>>
fifoVars == <<current, waiters, core, state>>
fileVars == <<fds, dir, content>>
vars == <<storageVars, fifoVars, req, slots, fileVars, destroyer>>

Transfers == INSTANCE AsyncStorage WITH
    Key <- Id, Obj <- Slot, Holder <- Req, HeldSource <- TRUE

Workers == INSTANCE SenderFifo WITH Fifo <- Slot, Op <- Req

Block == 0..(Blocks - 1)

Closed == [file |-> Null, pos |-> 0]

Free == [kind |-> "none", id |-> Null, slot |-> Null, off |-> 0, fd |-> Null,
         match |-> FALSE, ok |-> FALSE, stage |-> "free"]

Unused == [path |-> Null, filesize |-> 0, written_bytes |-> 0, fh |-> 0,
           file |-> Null, stored |-> FALSE]

Idle == [step |-> "idle", fd |-> Null]

Request ==
    [kind : {"none", "start", "data", "end"}, id : Id \cup {Null},
     slot : Slot \cup {Null}, off : 0..(Width - 1) \cup Block,
     fd : Fd \cup {Null}, match : BOOLEAN, ok : BOOLEAN,
     stage : {"free", "wrapped", "open", "write", "read", "close", "answer"}]

Members ==
    [path : Path \cup {Null}, filesize : Size \cup {0}, written_bytes : Nat,
     fh : Fd, file : Slot \cup {Null}, stored : BOOLEAN]

FileTypeOK ==
    /\ fds \in [Fd -> [file : Slot \cup {Null, Stdin}, pos : 0..Blocks]]
    /\ dir \in [Path -> Slot \cup {Null}]
    /\ content \in [Slot -> [Block -> Slot \cup {Null}]]
    /\ destroyer \in [step : {"idle", "close", "unlink"}, fd : Fd \cup {Null}]

TypeOK ==
    /\ Transfers!TypeOK
    /\ Workers!TypeOK
    /\ req \in [Req -> Request]
    /\ slots \in [Slot -> Members]
    /\ FileTypeOK

Init ==
    /\ Transfers!Init
    /\ Workers!Init
    /\ req = [r \in Req |-> Free]
    /\ slots = [s \in Slot |-> Unused]
    /\ fds = [k \in Fd |-> IF k = 0 THEN [file |-> Stdin, pos |-> 0] ELSE Closed]
    /\ dir = [p \in Path |-> Null]
    /\ content = [s \in Slot |-> [b \in Block |-> Null]]
    /\ destroyer = Idle

-----------------------------------------------------------------------------
\* What the hub may be careful about: to send nothing of a transfer after its
\* end, to upload to a path in one transfer at a time, and not to upload
\* again to a path before the file of a failed transfer is cleaned up.  Two
\* names that are one path after they were cut are one path for this, too.

InProgress(kind, id) ==
    \E r \in Req : req[r].stage # "free" /\ req[r].kind = kind /\ req[r].id = id

HubSends(id) == "end_is_last" \in Hub => ~InProgress("end", id)

HubUploads(p) ==
    /\ "one_upload" \in Hub =>
         \A id \in Id : m[id] # Null => slots[m[id]].path # p
    /\ "awaits_cleanup" \in Hub =>
         \A s \in Slot : mem[s] = "allocated" /\ slots[s].path = p => slots[s].stored

-----------------------------------------------------------------------------
\* The requests.  One that is refused (id taken, id unknown, data beyond the
\* declared size) is answered at once and changes nothing; the one exception,
\* an end for an unknown id, is not answered and changes nothing either.

Handle(r, kind, id, s, off, match) ==
    /\ req[r].stage = "free"
    /\ req' = [req EXCEPT ![r] =
         [kind |-> kind, id |-> id, slot |-> s, off |-> off, fd |-> Null,
          match |-> match, ok |-> FALSE, stage |-> "wrapped"]]
    /\ Workers!Start(s, r)
    /\ UNCHANGED <<fileVars, destroyer>>

\* p: the path that is left of working directory, folder and name
StartTransfer(r, id, s, p, n) ==
    /\ HubUploads(p)
    /\ Transfers!Emplace(id, s, r)
    /\ slots' = [slots EXCEPT ![s] = [Unused EXCEPT !.path = p, !.filesize = n]]
    /\ Handle(r, "start", id, s, 0, FALSE)

\* offset + data.size() in 64 bits
WithinFile(s, off) == (off + 1) % Width <= slots[s].filesize

DataOf(s) == {r \in Req : req[r].kind = "data" /\ req[r].slot = s}

TransferData(r, id, off) ==
    /\ m[id] # Null
    /\ slots[m[id]].written_bytes + Cardinality(DataOf(m[id])) < MaxData
    /\ HubSends(id)
    /\ WithinFile(m[id], off)
    /\ Handle(r, "data", id, m[id], off, FALSE)
    /\ UNCHANGED <<storageVars, slots>>

\* defect: the entry is erased before the wait
EndErasesFirst(r, id, right) ==
    /\ m[id] # Null
    /\ HubSends(id)
    /\ Handle(r, "end", id, m[id], 0, right)
    /\ Transfers!Erase(id)
    /\ UNCHANGED slots

\* right: the declared hash is the one of the content that the hub uploads
EndTransfer(r, id, right) ==
    /\ m[id] # Null
    /\ HubSends(id)
    /\ Handle(r, "end", id, m[id], 0, right)
    /\ UNCHANGED <<storageVars, slots>>

-----------------------------------------------------------------------------
\* The slot's coroutines: start(), write() and end(), wrapped by the fifo.

\* defect: the operation is not wrapped by the fifo
AtAnyTime(r, kind, stage) == req[r].kind = kind /\ req[r].stage = stage

At(r, kind, stage) ==
    req[r].kind = kind /\ req[r].stage = stage /\ state[r] = "running"

\* an operation on a descriptor is issued with the value that fh has now
Issue(r, stage, off, match) ==
    /\ req' = [req EXCEPT ![r] =
         [@ EXCEPT !.stage = stage, !.off = off, !.match = match,
                   !.fd = slots[req[r].slot].fh]]
    /\ UNCHANGED fifoVars

\* defect: the fifo is not told that the operation has ended
FinishAlone(r, ok) ==
    /\ req' = [req EXCEPT ![r] = [@ EXCEPT !.stage = "answer", !.ok = ok, !.fd = Null]]
    /\ UNCHANGED fifoVars

\* the coroutine ends, and with it the fifo's current operation
Finish(r, ok) ==
    /\ req' = [req EXCEPT ![r] = [@ EXCEPT !.stage = "answer", !.ok = ok, !.fd = Null]]
    /\ Workers!Complete(r)

OpenFile(r) ==
    /\ At(r, "start", "wrapped")
    /\ req' = [req EXCEPT ![r].stage = "open"]
    /\ UNCHANGED <<storageVars, fifoVars, slots, fileVars, destroyer>>

WriteBlock(r) ==
    /\ At(r, "data", "wrapped")
    /\ Issue(r, "write", req[r].off, FALSE)
    /\ UNCHANGED <<storageVars, slots, fileVars, destroyer>>

\* defect: the hash is not compared
HashIgnored(r, off, match) ==
    \/ off < slots[req[r].slot].filesize /\ Issue(r, "read", off, match)
    \/ off >= slots[req[r].slot].filesize /\ Issue(r, "close", 0, match)

\* the loop of end() at an offset, with what was read so far
HashFrom(r, off, match) ==
    \/ /\ off < slots[req[r].slot].filesize
       /\ Issue(r, "read", off, match)
    \/ /\ off >= slots[req[r].slot].filesize
       /\ match
       /\ Issue(r, "close", 0, match)
    \/ /\ off >= slots[req[r].slot].filesize
       /\ ~match
       /\ Finish(r, FALSE)

SizeIsRight(s) == slots[s].written_bytes = slots[s].filesize

CheckSize(r) ==
    /\ At(r, "end", "wrapped")
    /\ \/ ~SizeIsRight(req[r].slot) /\ Finish(r, FALSE)
       \/ SizeIsRight(req[r].slot) /\ HashFrom(r, 0, req[r].match)
    /\ UNCHANGED <<storageVars, slots, fileVars, destroyer>>

-----------------------------------------------------------------------------
\* The file system's callbacks.

LowestFree(k) ==
    fds[k] = Closed /\ \A j \in Fd : j < k => fds[j] # Closed

\* O_CREAT without O_TRUNC
Opened(r) ==
    /\ At(r, "start", "open")
    /\ \E k \in Fd :
         LET s == req[r].slot
             p == slots[s].path
             file == IF dir[p] = Null THEN s ELSE dir[p]
         IN  /\ LowestFree(k)
             /\ fds' = [fds EXCEPT ![k] = [file |-> file, pos |-> 0]]
             /\ dir' = [dir EXCEPT ![p] = file]
             /\ slots' = [slots EXCEPT ![s] = [@ EXCEPT !.fh = k, !.file = file]]
    /\ Finish(r, TRUE)
    /\ UNCHANGED <<storageVars, content, destroyer>>

FileOf(r) == fds[req[r].fd].file

\* libuv takes an offset with the sign bit for the descriptor's position
BlockOf(r) ==
    IF 2 * req[r].off < Width THEN req[r].off ELSE fds[req[r].fd].pos

\* A short write counts as a whole one; descriptor 0 takes anything.
Wrote(r) ==
    /\ At(r, "data", "write")
    /\ FileOf(r) # Null
    /\ BlockOf(r) \in Block
    /\ \E landed \in BOOLEAN :
         /\ ~landed => "short" \in Faults
         /\ content' = IF landed /\ FileOf(r) # Stdin
                       THEN [content EXCEPT ![FileOf(r)][BlockOf(r)] = req[r].slot]
                       ELSE content
         /\ fds' = IF landed /\ 2 * req[r].off >= Width
                   THEN [fds EXCEPT ![req[r].fd].pos = @ + 1]
                   ELSE fds
    /\ slots' = [slots EXCEPT ![req[r].slot].written_bytes = @ + 1]
    /\ Finish(r, TRUE)
    /\ UNCHANGED <<storageVars, dir, destroyer>>

\* The chunk at an offset has the declared blocks and nothing after them.
ChunkMatches(s, f, off) ==
    \A b \in Block : off <= b /\ b < off + Chunk =>
        IF b < slots[s].filesize
        THEN content[f][b] = s
        ELSE \A c \in Block : c >= b => content[f][c] = Null

ReadChunk(r) ==
    /\ At(r, "end", "read")
    /\ FileOf(r) # Null
    /\ HashFrom(r, req[r].off + Chunk,
                req[r].match /\ FileOf(r) # Stdin
                  /\ ChunkMatches(req[r].slot, FileOf(r), req[r].off))
    /\ UNCHANGED <<storageVars, slots, fileVars, destroyer>>

\* stored: the request will be answered with success
ClosedFile(r) ==
    /\ At(r, "end", "close")
    /\ FileOf(r) # Null
    /\ fds' = [fds EXCEPT ![req[r].fd] = Closed]
    /\ slots' = [slots EXCEPT ![req[r].slot] = [@ EXCEPT !.fh = 0, !.stored = TRUE]]
    /\ Finish(r, TRUE)
    /\ UNCHANGED <<storageVars, dir, content, destroyer>>

\* An operation fails because the file system fails, the descriptor is not
\* open, or it is descriptor 0.  A failed close has still released it.
Failed(r) ==
    /\ state[r] = "running"
    /\ req[r].stage \in {"open", "write", "read", "close"}
    /\ \/ req[r].stage \in Faults
       \/ req[r].stage # "open" /\ FileOf(r) \in {Null, Stdin}
    /\ fds' = IF req[r].stage = "close" THEN [fds EXCEPT ![req[r].fd] = Closed] ELSE fds
    /\ Finish(r, FALSE)
    /\ UNCHANGED <<storageVars, slots, dir, content, destroyer>>

-----------------------------------------------------------------------------
\* The request's coroutine is resumed and answers.  After an end the entry is
\* erased through the iterator found before the wait; SlotsOutliveRequests
\* says that it is still the entry of the slot.
Answer(r) ==
    /\ req[r].stage = "answer"
    /\ \/ req[r].kind = "start" /\ Transfers!DropPtr(r)
       \/ req[r].kind = "data" /\ UNCHANGED storageVars
       \/ /\ req[r].kind = "end"
          /\ m[req[r].id] = req[r].slot
          /\ Transfers!Erase(req[r].id)
    /\ req' = [req EXCEPT ![r] = Free]
    /\ UNCHANGED <<fifoVars, slots, fileVars, destroyer>>

-----------------------------------------------------------------------------
\* destroy() of a slot, run by the tick of the async_map.

Tick ==
    /\ Transfers!Tick
    /\ UNCHANGED <<fifoVars, req, slots, fileVars, destroyer>>

\* defect: the file stays open
DestroyNothing ==
    /\ destroy_task # Null
    /\ to_erase = Null
    /\ Transfers!DestroyFinish
    /\ UNCHANGED <<destroyer, fifoVars, req, slots, fileVars>>

\* defect: destroy() does not return when there is nothing to close
DestroyOpenOnly ==
    /\ destroy_task # Null
    /\ to_erase = Null
    /\ destroyer = Idle
    /\ slots[destroy_task].fh # 0
    /\ destroyer' = [step |-> "close", fd |-> slots[destroy_task].fh]
    /\ UNCHANGED <<storageVars, fifoVars, req, slots, fileVars>>

DestroyBegin ==
    /\ destroy_task # Null
    /\ to_erase = Null
    /\ destroyer = Idle
    /\ \/ /\ slots[destroy_task].fh = 0
          /\ Transfers!DestroyFinish
          /\ UNCHANGED destroyer
       \/ /\ slots[destroy_task].fh # 0
          /\ destroyer' = [step |-> "close", fd |-> slots[destroy_task].fh]
          /\ UNCHANGED storageVars
    /\ UNCHANGED <<fifoVars, req, slots, fileVars>>

\* an error ends destroy() before it unlinks the file
DestroyClosed ==
    /\ destroyer.step = "close"
    /\ fds' = [fds EXCEPT ![destroyer.fd] = Closed]
    /\ \E failed \in BOOLEAN :
         /\ failed => "close" \in Faults \/ fds[destroyer.fd] = Closed
         /\ fds[destroyer.fd] = Closed => failed
         /\ IF failed
            THEN destroyer' = Idle /\ Transfers!DestroyFinish
            ELSE destroyer' = [step |-> "unlink", fd |-> Null] /\ UNCHANGED storageVars
    /\ UNCHANGED <<fifoVars, req, slots, dir, content>>

\* defect: the file keeps its name
DestroyKeepsFile ==
    /\ destroyer.step = "unlink"
    /\ destroyer' = Idle
    /\ slots' = [slots EXCEPT ![destroy_task].fh = 0]
    /\ Transfers!DestroyFinish
    /\ UNCHANGED <<fifoVars, req, fds, dir, content>>

DestroyUnlinked ==
    /\ destroyer.step = "unlink"
    /\ \E failed \in BOOLEAN :
         /\ failed => "unlink" \in Faults
         /\ dir' = IF failed THEN dir ELSE [dir EXCEPT ![slots[destroy_task].path] = Null]
    /\ destroyer' = Idle
    /\ slots' = [slots EXCEPT ![destroy_task].fh = 0]
    /\ Transfers!DestroyFinish
    /\ UNCHANGED <<fifoVars, req, fds, content>>

-----------------------------------------------------------------------------
Requests ==
    \/ \E r \in Req, id \in Id, s \in Slot, p \in Path, n \in Size :
         StartTransfer(r, id, s, p, n)
    \/ \E r \in Req, id \in Id, off \in Offset : TransferData(r, id, off)
    \/ \E r \in Req, id \in Id, right \in BOOLEAN : EndTransfer(r, id, right)

Resume(r) == OpenFile(r) \/ WriteBlock(r) \/ CheckSize(r) \/ Answer(r)

Callback(r) ==
    Opened(r) \/ Wrote(r) \/ ReadChunk(r) \/ ClosedFile(r) \/ Failed(r)

Destroy == DestroyBegin \/ DestroyClosed \/ DestroyUnlinked

Next ==
    \/ Requests
    \/ \E r \in Req : Resume(r) \/ Callback(r)
    \/ Tick
    \/ Destroy

Spec == Init /\ [][Next]_vars

\* The loop resumes what is ready, libuv calls back every operation, the
\* idle handle ticks.
Fairness ==
    /\ \A r \in Req : WF_vars(Resume(r)) /\ WF_vars(Callback(r))
    /\ WF_vars(Tick)
    /\ WF_vars(Destroy)

FairSpec == Spec /\ Fairness
=============================================================================
