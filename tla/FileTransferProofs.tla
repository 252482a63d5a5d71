------------------------- MODULE FileTransferProofs -------------------------
(***************************************************************************)
(* Proofs about FileTransfer: its types, and that it uses the async_map    *)
(* and the fifos as AsyncStorage and SenderFifo allow, so that what is     *)
(* proved there holds here.  If the hub sends nothing of a transfer after  *)
(* its end, no request outlives its slot.  If also no close fails and no   *)
(* upload is empty, requests work on the descriptor of their own slot and  *)
(* none leaks, a transfer that failed leaves no file, and one that         *)
(* succeeded has its content in its own.                                   *)
(***************************************************************************)
EXTENDS FileTransferProps, SequenceTheorems, TLAPS

StorageP == INSTANCE AsyncStorageProofs WITH
    Key <- Id, Obj <- Slot, Holder <- Req, HeldSource <- TRUE

FifoP == INSTANCE SenderFifoProofs WITH Fifo <- Slot, Op <- Req

\* A request in progress knows its transfer and its slot; slots in use have
\* a path.
Placed ==
    /\ \A r \in Req : req[r].stage # "free" =>
         req[r].id \in Id /\ req[r].slot \in Slot /\ slots[req[r].slot].path \in Path
    /\ \A id \in Id : m[id] # Null => slots[m[id]].path \in Path

-----------------------------------------------------------------------------
\* The operations of the async_map that the transfers use.
Uses ==
    \/ \E id \in Id, s \in Slot, r \in Req : Transfers!Emplace(id, s, r)
    \/ \E r \in Req : Transfers!DropPtr(r)
    \/ \E id \in Id : Transfers!Erase(id)
    \/ Transfers!DestroyFinish
    \/ Transfers!Tick

\* Every step is one of them, or none of the async_map's business.
LEMMA StepUses ==
  ASSUME [Next]_vars, Placed
  PROVE  Uses \/ UNCHANGED storageVars
<1>1. ASSUME Requests PROVE Uses \/ UNCHANGED storageVars
  <2>1. ASSUME NEW r \in Req, NEW id \in Id, NEW s \in Slot, NEW p \in Path, NEW n \in Size,
               StartTransfer(r, id, s, p, n)
        PROVE  Uses
    BY <2>1 DEF StartTransfer, Uses
  <2> QED
    BY <1>1, <2>1 DEF Requests, TransferData, EndTransfer
<1>2. ASSUME NEW r \in Req, Answer(r) PROVE Uses \/ UNCHANGED storageVars
  <2>1. req[r].id \in Id
    BY <1>2 DEF Answer, Placed
  <2> QED
    BY <1>2, <2>1 DEF Answer, Uses
<1>3. ASSUME NEW r \in Req, OpenFile(r) \/ WriteBlock(r) \/ CheckSize(r) \/ Callback(r)
      PROVE  UNCHANGED storageVars
  BY <1>3 DEF OpenFile, WriteBlock, CheckSize, Callback, Opened, Wrote, ReadChunk,
     ClosedFile, Failed
<1>4. ASSUME Tick \/ Destroy PROVE Uses \/ UNCHANGED storageVars
  BY <1>4 DEF Tick, Destroy, DestroyBegin, DestroyClosed, DestroyUnlinked, Uses
<1>5. CASE UNCHANGED vars
  BY <1>5 DEF vars, storageVars
<1> QED
  BY <1>1, <1>2, <1>3, <1>4, <1>5 DEF Next, Resume

\* It is a step of the AsyncStorage that the proofs are about.
LEMMA StorageStep ==
  ASSUME [Next]_vars, Placed
  PROVE  [StorageP!Next]_(StorageP!storageVars)
<1>1. ASSUME NEW id \in Id, NEW s \in Slot, NEW r \in Req, Transfers!Emplace(id, s, r)
      PROVE  StorageP!Emplace(id, s, r)
  BY <1>1 DEF Transfers!Emplace, StorageP!Emplace, Transfers!Allocate, StorageP!Allocate,
     Transfers!Acquire, StorageP!Acquire
<1>2. ASSUME NEW r \in Req, Transfers!DropPtr(r) PROVE StorageP!DropPtr(r)
  BY <1>2 DEF Transfers!DropPtr, StorageP!DropPtr, Transfers!Release, StorageP!Release
<1>3. ASSUME NEW id \in Id, Transfers!Erase(id) PROVE StorageP!Erase(id)
  BY <1>3 DEF Transfers!Erase, StorageP!Erase, Transfers!Release, StorageP!Release
<1>4. ASSUME Transfers!DestroyFinish PROVE StorageP!DestroyFinish
  BY <1>4 DEF Transfers!DestroyFinish, StorageP!DestroyFinish
<1>5. ASSUME Transfers!Tick PROVE StorageP!Tick
  BY <1>5 DEF Transfers!Tick, StorageP!Tick, Transfers!TickErase, StorageP!TickErase,
     Transfers!TickStart, StorageP!TickStart, Transfers!TickSignal, StorageP!TickSignal,
     Transfers!TickRest, StorageP!TickRest, Transfers!TaskAfterErase,
     StorageP!TaskAfterErase
<1>6. Uses => StorageP!Next
  BY <1>1, <1>2, <1>3, <1>4, <1>5 DEF Uses, StorageP!Next
<1>7. UNCHANGED storageVars => UNCHANGED StorageP!storageVars
  BY DEF storageVars, StorageP!storageVars
<1> QED
  BY <1>6, <1>7, StepUses

\* And it is one of the fifos, or none of theirs.
LEMMA HandleStarts ==
  ASSUME NEW r \in Req, NEW kind, NEW id, NEW s \in Slot, NEW off, NEW match,
         Handle(r, kind, id, s, off, match)
  PROVE  FifoP!Start(s, r)
BY DEF Handle, Workers!Start, FifoP!Start

LEMMA FinishCompletes ==
  ASSUME NEW r \in Req, NEW ok, Finish(r, ok)
  PROVE  FifoP!Complete(r)
BY DEF Finish, Workers!Complete, FifoP!Complete, Workers!OnEnd, FifoP!OnEnd

LEMMA CallbackStep ==
  ASSUME NEW r \in Req, OpenFile(r) \/ WriteBlock(r) \/ CheckSize(r) \/ Callback(r)
  PROVE  UNCHANGED fifoVars \/ \E ok \in BOOLEAN : Finish(r, ok)
<1>1. CASE OpenFile(r) \/ WriteBlock(r)
  BY <1>1 DEF OpenFile, WriteBlock, Issue
<1>2. ASSUME NEW off, NEW match, HashFrom(r, off, match)
      PROVE  UNCHANGED fifoVars \/ Finish(r, FALSE)
  BY <1>2 DEF HashFrom, Issue
<1>3. CASE CheckSize(r) \/ ReadChunk(r)
  BY <1>2, <1>3 DEF CheckSize, ReadChunk
<1>4. CASE Opened(r) \/ Wrote(r) \/ ClosedFile(r) \/ Failed(r)
  BY <1>4 DEF Opened, Wrote, ClosedFile, Failed
<1> QED
  BY <1>1, <1>3, <1>4 DEF Callback

LEMMA FifoStep ==
  ASSUME [Next]_vars, StorageP!TypeOK
  PROVE  [FifoP!Next]_(FifoP!fifoVars)
<1>0. UNCHANGED fifoVars => UNCHANGED FifoP!fifoVars
  BY DEF FifoP!fifoVars, fifoVars
<1>1. ASSUME NEW r \in Req, NEW kind, NEW id, NEW s \in Slot, NEW off, NEW match,
             Handle(r, kind, id, s, off, match)
      PROVE  FifoP!Next
  BY <1>1, HandleStarts DEF FifoP!Next
<1>2. \A id \in Id : m[id] # Null => m[id] \in Slot
  BY DEF StorageP!TypeOK
<1>3. ASSUME Requests PROVE FifoP!Next
  BY <1>1, <1>2, <1>3 DEF Requests, StartTransfer, TransferData, EndTransfer
<1>4. ASSUME NEW r \in Req, Resume(r) \/ Callback(r)
      PROVE  [FifoP!Next]_(FifoP!fifoVars)
  <2>1. CASE Answer(r)
    BY <1>0, <2>1 DEF Answer
  <2>2. CASE ~Answer(r)
    <3>1. UNCHANGED fifoVars \/ \E ok \in BOOLEAN : Finish(r, ok)
      BY <1>4, <2>2, CallbackStep DEF Resume
    <3> QED
      BY <1>0, <3>1, FinishCompletes DEF FifoP!Next
  <2> QED
    BY <2>1, <2>2
<1>5. ASSUME Tick \/ Destroy PROVE UNCHANGED fifoVars
  BY <1>5 DEF Tick, Destroy, DestroyBegin, DestroyClosed, DestroyUnlinked
<1>6. CASE UNCHANGED vars
  BY <1>0, <1>6 DEF vars, fifoVars
<1> QED
  BY <1>0, <1>3, <1>4, <1>5, <1>6, Zenon DEF Next

-----------------------------------------------------------------------------
OwnTypes ==
    /\ req \in [Req -> Request]
    /\ slots \in [Slot -> Members]
    /\ FileTypeOK

\* What the parts of a request can be.
LEMMA Offsets ==
  /\ 0 \in 0..(Width - 1)
  /\ \A off \in Offset : off \in 0..(Width - 1) \cup Block
  /\ \A off \in Nat, n \in Size \cup {0} : off < n => off \in Block
  /\ \A off \in 0..(Width - 1) \cup Block : off + Chunk \in Nat
BY SizeAssumption, OffsetAssumption, ChunkAssumption DEF Block

LEMMA RequestChange ==
  ASSUME NEW x \in Request,
         NEW stage \in {"wrapped", "open", "write", "read", "close", "answer"},
         NEW off \in 0..(Width - 1) \cup Block, NEW match \in BOOLEAN,
         NEW fd \in Fd \cup {Null}, NEW ok \in BOOLEAN
  PROVE  /\ [x EXCEPT !.stage = stage, !.off = off, !.match = match, !.fd = fd] \in Request
         /\ [x EXCEPT !.stage = stage, !.ok = ok, !.fd = fd] \in Request
<1> DEFINE offs == 0..(Width - 1) \cup Block
<1>0. off \in offs
  OBVIOUS
<1> HIDE DEF offs
<1>1. x \in [kind : {"none", "start", "data", "end"}, id : Id \cup {Null},
             slot : Slot \cup {Null}, off : offs, fd : Fd \cup {Null},
             match : BOOLEAN, ok : BOOLEAN,
             stage : {"free", "wrapped", "open", "write", "read", "close", "answer"}]
  BY DEF Request, offs
<1>2. /\ x = [kind |-> x.kind, id |-> x.id, slot |-> x.slot, off |-> x.off, fd |-> x.fd,
              match |-> x.match, ok |-> x.ok, stage |-> x.stage]
      /\ x.kind \in {"none", "start", "data", "end"} /\ x.id \in Id \cup {Null}
      /\ x.slot \in Slot \cup {Null} /\ x.off \in offs
      /\ x.match \in BOOLEAN /\ x.ok \in BOOLEAN
  BY <1>1
<1>3. [x EXCEPT !.stage = stage, !.off = off, !.match = match, !.fd = fd]
        = [kind |-> x.kind, id |-> x.id, slot |-> x.slot, off |-> off, fd |-> fd,
           match |-> match, ok |-> x.ok, stage |-> stage]
  <2> DEFINE y == [x EXCEPT !.stage = stage, !.off = off, !.match = match, !.fd = fd]
  <2>1. y = [f \in DOMAIN x |-> y[f]]
    OBVIOUS
  <2>2. /\ y.kind = x.kind /\ y.id = x.id /\ y.slot = x.slot /\ y.off = off
        /\ y.fd = fd /\ y.match = match /\ y.ok = x.ok /\ y.stage = stage
    BY <1>1
  <2>3. DOMAIN x = {"kind", "id", "slot", "off", "fd", "match", "ok", "stage"}
    BY <1>1
  <2> HIDE DEF y
  <2> QED
    BY <2>1, <2>2, <2>3
<1>4. [x EXCEPT !.stage = stage, !.ok = ok, !.fd = fd]
        = [kind |-> x.kind, id |-> x.id, slot |-> x.slot, off |-> x.off, fd |-> fd,
           match |-> x.match, ok |-> ok, stage |-> stage]
  <2> DEFINE y == [x EXCEPT !.stage = stage, !.ok = ok, !.fd = fd]
  <2>1. y = [f \in DOMAIN x |-> y[f]]
    OBVIOUS
  <2>2. /\ y.kind = x.kind /\ y.id = x.id /\ y.slot = x.slot /\ y.off = x.off
        /\ y.fd = fd /\ y.match = x.match /\ y.ok = ok /\ y.stage = stage
    BY <1>1
  <2>3. DOMAIN x = {"kind", "id", "slot", "off", "fd", "match", "ok", "stage"}
    BY <1>1
  <2> HIDE DEF y
  <2> QED
    BY <2>1, <2>2, <2>3
<1>5. Request = [kind : {"none", "start", "data", "end"}, id : Id \cup {Null},
             slot : Slot \cup {Null}, off : offs, fd : Fd \cup {Null},
             match : BOOLEAN, ok : BOOLEAN,
             stage : {"free", "wrapped", "open", "write", "read", "close", "answer"}]
  BY DEF Request, offs
<1>6. /\ [kind |-> x.kind, id |-> x.id, slot |-> x.slot, off |-> off, fd |-> fd,
           match |-> match, ok |-> x.ok, stage |-> stage] \in Request
      /\ [kind |-> x.kind, id |-> x.id, slot |-> x.slot, off |-> x.off, fd |-> fd,
           match |-> x.match, ok |-> ok, stage |-> stage] \in Request
  BY <1>0, <1>2, <1>5
<1> QED
  BY <1>3, <1>4, <1>6

LEMMA IssueTypes ==
  ASSUME OwnTypes, NEW r \in Req, req[r].slot \in Slot,
         NEW stage \in {"wrapped", "open", "write", "read", "close", "answer"},
         NEW off \in 0..(Width - 1) \cup Block, NEW match \in BOOLEAN,
         Issue(r, stage, off, match)
  PROVE  req' \in [Req -> Request]
<1> DEFINE a == [req[r] EXCEPT !.stage = stage, !.off = off, !.match = match,
                               !.fd = slots[req[r].slot].fh]
<1>1. slots[req[r].slot].fh \in Fd
  BY DEF OwnTypes, Members
<1>2. a \in Request
  BY <1>1, RequestChange DEF OwnTypes
<1>3. req' = [req EXCEPT ![r] = a]
  BY DEF Issue
<1> HIDE DEF a
<1> QED
  BY <1>2, <1>3 DEF OwnTypes

LEMMA FinishTypes ==
  ASSUME OwnTypes, NEW r \in Req, NEW ok \in BOOLEAN, Finish(r, ok)
  PROVE  req' \in [Req -> Request]
<1> DEFINE a == [req[r] EXCEPT !.stage = "answer", !.ok = ok, !.fd = Null]
<1>1. 0 \in 0..(Width - 1) \cup Block
  BY Offsets
<1>2. a \in Request
  BY <1>1, RequestChange DEF OwnTypes
<1>3. req' = [req EXCEPT ![r] = a]
  BY DEF Finish
<1> HIDE DEF a
<1> QED
  BY <1>2, <1>3 DEF OwnTypes

LEMMA HandleTypes ==
  ASSUME OwnTypes, NEW r \in Req, NEW kind \in {"start", "data", "end"}, NEW id \in Id,
         NEW s \in Slot, NEW off \in 0..(Width - 1) \cup Block, NEW match \in BOOLEAN,
         Handle(r, kind, id, s, off, match)
  PROVE  req' \in [Req -> Request]
BY DEF OwnTypes, Request, Handle

LEMMA HashTypes ==
  ASSUME OwnTypes, NEW r \in Req, req[r].slot \in Slot, NEW off \in Nat,
         NEW match \in BOOLEAN, HashFrom(r, off, match)
  PROVE  req' \in [Req -> Request]
<1>1. slots[req[r].slot].filesize \in Size \cup {0}
  BY DEF OwnTypes, Members
<1>2. CASE off < slots[req[r].slot].filesize /\ Issue(r, "read", off, match)
  BY <1>1, <1>2, Offsets, IssueTypes
<1>3. CASE Issue(r, "close", 0, match)
  BY <1>3, Offsets, IssueTypes
<1>4. CASE Finish(r, FALSE)
  BY <1>4, FinishTypes
<1> QED
  BY <1>2, <1>3, <1>4 DEF HashFrom

\* Every step keeps the types of the requests.
LEMMA RequestTypes ==
  ASSUME StorageP!TypeOK, OwnTypes, Placed, [Next]_vars
  PROVE  req' \in [Req -> Request]
<1>1. \A id \in Id : m[id] # Null => m[id] \in Slot
  BY DEF StorageP!TypeOK
<1>2. ASSUME Requests PROVE req' \in [Req -> Request]
  <2>1. ASSUME NEW r \in Req, NEW id \in Id, NEW s \in Slot, NEW p \in Path, NEW n \in Size,
               StartTransfer(r, id, s, p, n)
        PROVE  req' \in [Req -> Request]
    BY <2>1, Offsets, HandleTypes DEF StartTransfer
  <2>2. ASSUME NEW r \in Req, NEW id \in Id, NEW off \in Offset, TransferData(r, id, off)
        PROVE  req' \in [Req -> Request]
    BY <1>1, <2>2, Offsets, HandleTypes DEF TransferData
  <2>3. ASSUME NEW r \in Req, NEW id \in Id, NEW right \in BOOLEAN, EndTransfer(r, id, right)
        PROVE  req' \in [Req -> Request]
    BY <1>1, <2>3, Offsets, HandleTypes DEF EndTransfer
  <2> QED
    BY <1>2, <2>1, <2>2, <2>3 DEF Requests
<1>3. ASSUME NEW r \in Req, Resume(r) PROVE req' \in [Req -> Request]
  <2>1. CASE OpenFile(r)
    BY <2>1 DEF OpenFile, OwnTypes, Request
  <2>2. CASE WriteBlock(r)
    <3>1. req[r].slot \in Slot /\ req[r].off \in 0..(Width - 1) \cup Block
      BY <2>2 DEF WriteBlock, At, Placed, OwnTypes, Request
    <3> QED
      BY <2>2, <3>1, IssueTypes DEF WriteBlock
  <2>3. CASE CheckSize(r)
    <3>1. req[r].slot \in Slot /\ req[r].match \in BOOLEAN
      BY <2>3 DEF CheckSize, At, Placed, OwnTypes, Request
    <3> QED
      BY <2>3, <3>1, HashTypes, FinishTypes DEF CheckSize
  <2>4. CASE Answer(r)
    <3>1. Free \in Request
      BY Offsets DEF Free, Request
    <3> QED
      BY <2>4, <3>1 DEF Answer, OwnTypes
  <2> QED
    BY <1>3, <2>1, <2>2, <2>3, <2>4 DEF Resume
<1>4. ASSUME NEW r \in Req, Callback(r) PROVE req' \in [Req -> Request]
  <2>1. CASE ReadChunk(r)
    <3>1. /\ req[r].slot \in Slot /\ req[r].match \in BOOLEAN
          /\ req[r].off + Chunk \in Nat
      BY <2>1, Offsets DEF ReadChunk, At, Placed, OwnTypes, Request
    <3>2. \A match \in BOOLEAN : HashFrom(r, req[r].off + Chunk, match) =>
            req' \in [Req -> Request]
      BY <3>1, HashTypes
    <3> DEFINE same == ChunkMatches(req[r].slot, FileOf(r), req[r].off)
    <3>3. (req[r].match /\ FileOf(r) # Stdin /\ same) \in BOOLEAN
      OBVIOUS
    <3> QED
      BY <2>1, <3>2, <3>3 DEF ReadChunk
  <2>2. CASE Opened(r) \/ Wrote(r) \/ ClosedFile(r) \/ Failed(r)
    BY <2>2, FinishTypes DEF Opened, Wrote, ClosedFile, Failed
  <2> QED
    BY <1>4, <2>1, <2>2 DEF Callback
<1>5. ASSUME Tick \/ Destroy \/ UNCHANGED vars PROVE req' \in [Req -> Request]
  BY <1>5 DEF Tick, Destroy, DestroyBegin, DestroyClosed, DestroyUnlinked, vars, OwnTypes
<1> QED
  BY <1>2, <1>3, <1>4, <1>5 DEF Next

\* What happens to the members of a slot.
LEMMA MembersChange ==
  ASSUME NEW x \in Members, NEW k \in Fd, NEW f \in Slot
  PROVE  /\ [x EXCEPT !.fh = k, !.file = f] \in Members
         /\ [x EXCEPT !.fh = k, !.stored = TRUE] \in Members
         /\ [x EXCEPT !.written_bytes = @ + 1] \in Members
         /\ [x EXCEPT !.fh = k] \in Members
<1> DEFINE a == [x EXCEPT !.fh = k, !.file = f]
           b == [x EXCEPT !.fh = k, !.stored = TRUE]
           c == [x EXCEPT !.written_bytes = @ + 1]
           d == [x EXCEPT !.fh = k]
<1>1. /\ x.path \in Path \cup {Null} /\ x.filesize \in Size \cup {0}
      /\ x.written_bytes \in Nat /\ x.fh \in Fd /\ x.file \in Slot \cup {Null}
      /\ x.stored \in BOOLEAN
      /\ DOMAIN x = {"path", "filesize", "written_bytes", "fh", "file", "stored"}
  BY DEF Members
<1>2. ASSUME NEW y, y = [g \in DOMAIN x |-> y[g]],
             y.path \in Path \cup {Null}, y.filesize \in Size \cup {0},
             y.written_bytes \in Nat, y.fh \in Fd, y.file \in Slot \cup {Null},
             y.stored \in BOOLEAN
      PROVE  y \in Members
  BY <1>1, <1>2 DEF Members
<1>3. a \in Members
  <2>1. a = [g \in DOMAIN x |-> a[g]]
    OBVIOUS
  <2>2. /\ a.path = x.path /\ a.filesize = x.filesize /\ a.stored = x.stored
        /\ a.written_bytes = x.written_bytes /\ a.fh = k /\ a.file = f
    BY <1>1
  <2> HIDE DEF a
  <2> QED
    BY <1>1, <1>2, <2>1, <2>2
<1>4. b \in Members
  <2>1. b = [g \in DOMAIN x |-> b[g]]
    OBVIOUS
  <2>2. /\ b.path = x.path /\ b.filesize = x.filesize /\ b.stored = TRUE
        /\ b.written_bytes = x.written_bytes /\ b.fh = k /\ b.file = x.file
    BY <1>1
  <2> HIDE DEF b
  <2> QED
    BY <1>1, <1>2, <2>1, <2>2
<1>5. c \in Members
  <2>1. c = [g \in DOMAIN x |-> c[g]]
    OBVIOUS
  <2>2. /\ c.path = x.path /\ c.filesize = x.filesize /\ c.stored = x.stored
        /\ c.written_bytes = x.written_bytes + 1 /\ c.fh = x.fh /\ c.file = x.file
    BY <1>1
  <2> HIDE DEF c
  <2> QED
    BY <1>1, <1>2, <2>1, <2>2
<1>6. d \in Members
  <2>1. d = [g \in DOMAIN x |-> d[g]]
    OBVIOUS
  <2>2. /\ d.path = x.path /\ d.filesize = x.filesize /\ d.stored = x.stored
        /\ d.written_bytes = x.written_bytes /\ d.fh = k /\ d.file = x.file
    BY <1>1
  <2> HIDE DEF d
  <2> QED
    BY <1>1, <1>2, <2>1, <2>2
<1> QED
  BY <1>3, <1>4, <1>5, <1>6

LEMMA NewMembers ==
  ASSUME NEW p \in Path, NEW n \in Size
  PROVE  [Unused EXCEPT !.path = p, !.filesize = n] \in Members
BY FdAssumption DEF Unused, Members

LEMMA SlotTypes ==
  ASSUME OwnTypes, StorageP!TypeOK, Placed, [Next]_vars
  PROVE  slots' \in [Slot -> Members]
<1> DEFINE Typed == slots' \in [Slot -> Members]
<1>0. \A s \in Slot : slots[s] \in Members
  BY DEF OwnTypes
<1>1. ASSUME Requests PROVE Typed
  <2>1. ASSUME NEW r \in Req, NEW id \in Id, NEW s \in Slot, NEW p \in Path, NEW n \in Size,
               StartTransfer(r, id, s, p, n)
        PROVE  Typed
    BY <2>1, NewMembers DEF StartTransfer, OwnTypes
  <2> QED
    BY <1>1, <2>1 DEF Requests, TransferData, EndTransfer, OwnTypes
<1>2. ASSUME NEW r \in Req, Resume(r) \/ ReadChunk(r) \/ Failed(r)
      PROVE  Typed
  BY <1>2 DEF Resume, OpenFile, WriteBlock, CheckSize, Answer, ReadChunk, Failed, OwnTypes
<1>3. ASSUME NEW r \in Req, Opened(r) PROVE Typed
  <2> DEFINE s == req[r].slot
             p == slots[s].path
             f == IF dir[p] = Null THEN s ELSE dir[p]
  <2>1. s \in Slot /\ p \in Path
    BY <1>3 DEF Opened, At, Placed
  <2>2. f \in Slot
    BY <2>1 DEF OwnTypes, FileTypeOK
  <2>3. PICK k \in Fd : slots' = [slots EXCEPT ![s] = [@ EXCEPT !.fh = k, !.file = f]]
    BY <1>3 DEF Opened
  <2> HIDE DEF s, f
  <2> QED
    BY <1>0, <2>1, <2>2, <2>3, MembersChange DEF OwnTypes
<1>4. ASSUME NEW r \in Req, Wrote(r) \/ ClosedFile(r) PROVE Typed
  <2>1. req[r].slot \in Slot /\ 0 \in Fd
    BY <1>4, FdAssumption DEF Wrote, ClosedFile, At, Placed
  <2>2. \/ slots' = [slots EXCEPT ![req[r].slot].written_bytes = @ + 1]
        \/ slots' = [slots EXCEPT ![req[r].slot] = [@ EXCEPT !.fh = 0, !.stored = TRUE]]
    BY <1>4 DEF Wrote, ClosedFile
  <2>3. /\ [slots[req[r].slot] EXCEPT !.written_bytes = @ + 1] \in Members
        /\ [slots[req[r].slot] EXCEPT !.fh = 0, !.stored = TRUE] \in Members
    BY <1>0, <2>1, MembersChange
  <2> QED
    BY <2>1, <2>2, <2>3 DEF OwnTypes
<1>5. ASSUME Destroy PROVE Typed
  <2>1. \/ UNCHANGED slots
        \/ slots' = [slots EXCEPT ![destroy_task].fh = 0]
    BY <1>5 DEF Destroy, DestroyBegin, DestroyClosed, DestroyUnlinked
  <2>2. destroy_task \in Slot => [slots[destroy_task] EXCEPT !.fh = 0] \in Members
    BY <1>0, FdAssumption, MembersChange
  <2> QED
    BY <2>1, <2>2 DEF OwnTypes
<1>6. ASSUME Tick \/ UNCHANGED vars PROVE Typed
  BY <1>6 DEF Tick, vars, OwnTypes
<1> QED
  BY <1>1, <1>2, <1>3, <1>4, <1>5, <1>6 DEF Next, Callback

\* Descriptors, directory and files.
LEMMA FileTypes ==
  ASSUME OwnTypes, StorageP!TypeOK, Placed, [Next]_vars
  PROVE  FileTypeOK'
<1> DEFINE File == [file : Slot \cup {Null, Stdin}, pos : 0..Blocks]
<1>0. /\ Closed \in File
      /\ \A f \in Slot : [file |-> f, pos |-> 0] \in File
  BY SizeAssumption DEF Closed
<1>1. ASSUME Requests PROVE UNCHANGED <<fileVars, destroyer>>
  BY <1>1 DEF Requests, StartTransfer, TransferData, EndTransfer, Handle
<1>2. ASSUME NEW r \in Req, Resume(r) \/ ReadChunk(r)
      PROVE  UNCHANGED <<fileVars, destroyer>>
  BY <1>2 DEF Resume, OpenFile, WriteBlock, CheckSize, Answer, ReadChunk
<1>3. ASSUME NEW r \in Req, Opened(r) PROVE FileTypeOK'
  <2> DEFINE s == req[r].slot
             p == slots[s].path
             f == IF dir[p] = Null THEN s ELSE dir[p]
  <2>1. s \in Slot /\ p \in Path
    BY <1>3 DEF Opened, At, Placed
  <2>2. f \in Slot
    BY <2>1 DEF OwnTypes, FileTypeOK
  <2>3. PICK k \in Fd :
          /\ fds' = [fds EXCEPT ![k] = [file |-> f, pos |-> 0]]
          /\ dir' = [dir EXCEPT ![p] = f]
    BY <1>3 DEF Opened
  <2>4. UNCHANGED <<content, destroyer>>
    BY <1>3 DEF Opened
  <2> HIDE DEF f
  <2> QED
    BY <1>0, <2>2, <2>3, <2>4 DEF OwnTypes, FileTypeOK
<1>4. ASSUME NEW r \in Req, ClosedFile(r) \/ Failed(r) PROVE FileTypeOK'
  <2>1. /\ fds' = fds \/ fds' = [fds EXCEPT ![req[r].fd] = Closed]
        /\ UNCHANGED <<dir, content, destroyer>>
    BY <1>4 DEF ClosedFile, Failed
  <2> QED
    BY <1>0, <2>1 DEF OwnTypes, FileTypeOK
<1>5. ASSUME NEW r \in Req, Wrote(r) PROVE FileTypeOK'
  <2>1. req[r].slot \in Slot /\ UNCHANGED <<dir, destroyer>>
    BY <1>5 DEF Wrote, At, Placed
  <2>2. \/ content' = content
        \/ content' = [content EXCEPT ![FileOf(r)][BlockOf(r)] = req[r].slot]
    BY <1>5 DEF Wrote
  <2>3. content' \in [Slot -> [Block -> Slot \cup {Null}]]
    <3> DEFINE Blks == [Block -> Slot \cup {Null}]
               f == FileOf(r)
               b == BlockOf(r)
               t == req[r].slot
    <3>1. content \in [Slot -> Blks]
      BY DEF OwnTypes, FileTypeOK
    <3>2. f \in Slot => [content[f] EXCEPT ![b] = t] \in Blks
      <4> HIDE DEF f, b, t
      <4>1. f \in Slot => content[f] \in Blks
        BY <3>1
      <4>2. t \in Slot
        BY <2>1 DEF t
      <4> QED
        BY <4>1, <4>2
    <3>3. content' = content \/ content' = [content EXCEPT ![f] = [content[f] EXCEPT ![b] = t]]
      BY <2>2
    <3> HIDE DEF f, b, t, Blks
    <3>4. content' \in [Slot -> Blks]
      BY <3>1, <3>2, <3>3
    <3> QED
      BY <3>4 DEF Blks
  <2>4. CASE fds' = fds
    BY <2>1, <2>3, <2>4 DEF OwnTypes, FileTypeOK
  <2>5. CASE fds' = [fds EXCEPT ![req[r].fd].pos = @ + 1] /\ 2 * req[r].off >= Width
    <3> DEFINE k == req[r].fd
    <3>1. fds[k].pos \in Block
      BY <1>5, <2>5, SizeAssumption DEF Wrote, BlockOf, OwnTypes, Request, Block
    <3>2. CASE k \in Fd
      <4>1. fds[k].file \in Slot \cup {Null, Stdin} /\ fds[k].pos + 1 \in 0..Blocks
        BY <3>1, <3>2, SizeAssumption DEF OwnTypes, FileTypeOK, Block
      <4>2. [fds[k] EXCEPT !.pos = @ + 1] \in File
        BY <3>2, <4>1 DEF OwnTypes, FileTypeOK
      <4>3. fds' \in [Fd -> File]
        BY <2>5, <4>2 DEF OwnTypes, FileTypeOK
      <4> QED
        BY <2>1, <2>3, <4>3 DEF OwnTypes, FileTypeOK
    <3>3. CASE k \notin Fd
      <4>1. fds' = fds
        BY <2>5, <3>3 DEF OwnTypes, FileTypeOK
      <4> QED
        BY <2>4, <4>1
    <3> QED
      BY <3>2, <3>3
  <2> QED
    BY <1>5, <2>4, <2>5 DEF Wrote
<1>6. ASSUME Destroy PROVE FileTypeOK'
  <2>1. /\ fds' = fds \/ fds' = [fds EXCEPT ![destroyer.fd] = Closed]
        /\ dir' = dir \/ dir' = [dir EXCEPT ![slots[destroy_task].path] = Null]
        /\ content' = content
    <3>1. CASE DestroyBegin
      BY <3>1 DEF DestroyBegin, fileVars
    <3>2. CASE DestroyClosed
      BY <3>2 DEF DestroyClosed
    <3>3. CASE DestroyUnlinked
      BY <3>3 DEF DestroyUnlinked
    <3> QED
      BY <1>6, <3>1, <3>2, <3>3 DEF Destroy
  <2>2. /\ fds' \in [Fd -> File]
        /\ dir' \in [Path -> Slot \cup {Null}]
    <3>1. fds \in [Fd -> File] /\ dir \in [Path -> Slot \cup {Null}]
      BY DEF OwnTypes, FileTypeOK
    <3> HIDE DEF File
    <3>2. fds' \in [Fd -> File]
      BY <1>0, <2>1, <3>1
    <3>3. dir' \in [Path -> Slot \cup {Null}]
      BY <2>1, <3>1
    <3> QED
      BY <3>2, <3>3
  <2>3. ASSUME DestroyBegin
        PROVE  destroyer' \in [step : {"idle", "close", "unlink"}, fd : Fd \cup {Null}]
    <3>1. CASE UNCHANGED destroyer
      BY <3>1 DEF OwnTypes, FileTypeOK
    <3>2. CASE destroyer' = [step |-> "close", fd |-> slots[destroy_task].fh]
      <4>1. destroy_task \in Slot
        BY <2>3 DEF DestroyBegin, StorageP!TypeOK
      <4>2. slots[destroy_task].fh \in Fd
        BY <4>1 DEF OwnTypes, Members
      <4> QED
        BY <3>2, <4>2
    <3> QED
      BY <2>3, <3>1, <3>2 DEF DestroyBegin
  <2>4. ASSUME DestroyClosed \/ DestroyUnlinked
        PROVE  destroyer' \in [step : {"idle", "close", "unlink"}, fd : Fd \cup {Null}]
    BY <2>4 DEF DestroyClosed, DestroyUnlinked, Idle
  <2> QED
    BY <1>6, <2>1, <2>2, <2>3, <2>4 DEF Destroy, OwnTypes, FileTypeOK
<1>7. ASSUME Tick \/ UNCHANGED vars PROVE UNCHANGED <<fileVars, destroyer>>
  BY <1>7 DEF Tick, vars, fileVars
<1>8. UNCHANGED <<fileVars, destroyer>> => FileTypeOK'
  BY DEF fileVars, OwnTypes, FileTypeOK
<1> QED
  BY <1>1, <1>2, <1>3, <1>4, <1>5, <1>6, <1>7, <1>8 DEF Next, Callback

-----------------------------------------------------------------------------
\* What is known of the requests: their transfers and slots, and where they
\* stand in the slot's fifo.
Ready == {"free", "answer"}

\* A request whose turn it is goes on, and perhaps ends its turn.
Moves(r) ==
    /\ \A x \in Req : x # r => req'[x] = req[x]
    /\ req'[r].kind = req[r].kind
    /\ req'[r].id = req[r].id
    /\ req'[r].slot = req[r].slot
    /\ req[r].stage \notin Ready
    /\ \/ req'[r].stage \notin Ready /\ UNCHANGED fifoVars
       \/ req'[r].stage = "answer" /\ FifoP!Complete(r)

LEMMA IssueMoves ==
  ASSUME req \in [Req -> Request], NEW r \in Req, req[r].stage \notin Ready,
         NEW stage \in {"wrapped", "open", "write", "read", "close"}, NEW off, NEW match,
         Issue(r, stage, off, match)
  PROVE  Moves(r)
<1>1. DOMAIN req[r] = {"kind", "id", "slot", "off", "fd", "match", "ok", "stage"}
  BY DEF Request
<1> QED
  BY <1>1 DEF Issue, Moves, Ready

LEMMA FinishMoves ==
  ASSUME req \in [Req -> Request], NEW r \in Req, req[r].stage \notin Ready, NEW ok,
         Finish(r, ok)
  PROVE  Moves(r)
<1>1. DOMAIN req[r] = {"kind", "id", "slot", "off", "fd", "match", "ok", "stage"}
  BY DEF Request
<1>2. FifoP!Complete(r)
  BY FinishCompletes
<1> QED
  BY <1>1, <1>2 DEF Finish, Moves, Ready

LEMMA CallbackMoves ==
  ASSUME req \in [Req -> Request], NEW r \in Req,
         OpenFile(r) \/ WriteBlock(r) \/ CheckSize(r) \/ Callback(r)
  PROVE  Moves(r)
<1>1. req[r].stage \notin Ready
  BY DEF OpenFile, WriteBlock, CheckSize, Callback, Opened, Wrote, ReadChunk, ClosedFile,
     Failed, At, Ready
<1>2. CASE OpenFile(r)
  <2>1. DOMAIN req[r] = {"kind", "id", "slot", "off", "fd", "match", "ok", "stage"}
    BY DEF Request
  <2> QED
    BY <1>1, <1>2, <2>1 DEF OpenFile, Moves, Ready
<1>3. CASE WriteBlock(r)
  BY <1>1, <1>3, IssueMoves DEF WriteBlock
<1>4. ASSUME NEW off, NEW match, HashFrom(r, off, match) PROVE Moves(r)
  BY <1>1, <1>4, IssueMoves, FinishMoves DEF HashFrom
<1>5. CASE CheckSize(r) \/ ReadChunk(r)
  BY <1>1, <1>4, <1>5, FinishMoves DEF CheckSize, ReadChunk
<1>6. CASE Opened(r) \/ Wrote(r) \/ ClosedFile(r) \/ Failed(r)
  BY <1>1, <1>6, FinishMoves DEF Opened, Wrote, ClosedFile, Failed
<1> QED
  BY <1>2, <1>3, <1>5, <1>6 DEF Callback

\* The path of a slot is written once.
LEMMA PathKept ==
  ASSUME slots \in [Slot -> Members], [Next]_vars, NEW s \in Slot, slots[s].path \in Path
  PROVE  slots'[s].path \in Path
<1>1. DOMAIN slots[s] = {"path", "filesize", "written_bytes", "fh", "file", "stored"}
  BY DEF Members
<1>2. ASSUME Requests PROVE slots'[s].path \in Path
  <2>1. ASSUME NEW r \in Req, NEW id \in Id, NEW t \in Slot, NEW p \in Path, NEW n \in Size,
               StartTransfer(r, id, t, p, n)
        PROVE  slots'[s].path \in Path
    BY <2>1 DEF StartTransfer, Unused
  <2> QED
    BY <1>2, <2>1 DEF Requests, TransferData, EndTransfer
<1>3. ASSUME NEW r \in Req, Resume(r) \/ ReadChunk(r) \/ Failed(r)
      PROVE  slots'[s].path \in Path
  BY <1>3 DEF Resume, OpenFile, WriteBlock, CheckSize, Answer, ReadChunk, Failed
<1>4. ASSUME NEW r \in Req, Opened(r) PROVE slots'[s].path \in Path
  <2>1. PICK k, f :
          slots' = [slots EXCEPT ![req[r].slot] = [@ EXCEPT !.fh = k, !.file = f]]
    BY <1>4 DEF Opened
  <2> QED
    BY <1>1, <2>1
<1>5. ASSUME NEW r \in Req, Wrote(r) PROVE slots'[s].path \in Path
  BY <1>1, <1>5 DEF Wrote
<1>6. ASSUME NEW r \in Req, ClosedFile(r) PROVE slots'[s].path \in Path
  BY <1>1, <1>6 DEF ClosedFile
<1>7. ASSUME Destroy PROVE slots'[s].path \in Path
  <2>1. \/ UNCHANGED slots
        \/ slots' = [slots EXCEPT ![destroy_task].fh = 0]
    BY <1>7 DEF Destroy, DestroyBegin, DestroyClosed, DestroyUnlinked
  <2> QED
    BY <1>1, <2>1
<1>8. ASSUME Tick \/ UNCHANGED vars PROVE slots'[s].path \in Path
  BY <1>8 DEF Tick, vars
<1> QED
  BY <1>2, <1>3, <1>4, <1>5, <1>6, <1>7, <1>8 DEF Next, Callback

\* A new request.
LEMMA HandleSets ==
  ASSUME req \in [Req -> Request], NEW r \in Req, NEW kind, NEW id, NEW s \in Slot,
         NEW off, NEW match, Handle(r, kind, id, s, off, match)
  PROVE  /\ \A x \in Req : x # r => req'[x] = req[x]
         /\ req[r].stage = "free" /\ req'[r].stage = "wrapped"
         /\ req'[r].kind = kind /\ req'[r].id = id /\ req'[r].slot = s
         /\ FifoP!Start(s, r)
BY HandleStarts DEF Handle

LEMMA PlacedStep ==
  ASSUME OwnTypes, StorageP!TypeOK, Placed, [Next]_vars
  PROVE  Placed'
<1>0. /\ \A id \in Id : m[id] # Null => m[id] \in Slot
      /\ \A s \in Slot : slots[s].path \in Path => slots'[s].path \in Path
  BY PathKept DEF StorageP!TypeOK, OwnTypes
<1>1. ASSUME Requests PROVE Placed'
  <2>1. ASSUME NEW r \in Req, NEW id \in Id, NEW s \in Slot, NEW p \in Path, NEW n \in Size,
               StartTransfer(r, id, s, p, n)
        PROVE  Placed'
    <3>1. m' = [m EXCEPT ![id] = s]
      BY <2>1 DEF StartTransfer, Transfers!Emplace, Transfers!Allocate
    <3>2. slots'[s].path = p
      BY <2>1 DEF StartTransfer, Unused, OwnTypes
    <3>3. Handle(r, "start", id, s, 0, FALSE)
      BY <2>1 DEF StartTransfer
    <3>4. /\ \A x \in Req : x # r => req'[x] = req[x]
          /\ req'[r].id = id /\ req'[r].slot = s
      BY <3>3, HandleSets DEF OwnTypes
    <3>5. \A i \in Id : m'[i] # Null => slots'[m'[i]].path \in Path
      BY <1>0, <3>1, <3>2 DEF Placed, StorageP!TypeOK
    <3>6. \A x \in Req : req'[x].stage # "free" =>
            req'[x].id \in Id /\ req'[x].slot \in Slot /\ slots'[req'[x].slot].path \in Path
      BY <1>0, <3>2, <3>4 DEF Placed
    <3> QED
      BY <3>5, <3>6 DEF Placed
  <2>2. ASSUME NEW r \in Req, NEW id \in Id, NEW kind, NEW off, NEW match, m[id] # Null,
               Handle(r, kind, id, m[id], off, match), UNCHANGED <<m, slots>>
        PROVE  Placed'
    BY <1>0, <2>2, HandleSets DEF OwnTypes, Placed
  <2> QED
    BY <1>1, <2>1, <2>2 DEF Requests, TransferData, EndTransfer, storageVars
<1>2. ASSUME NEW r \in Req, OpenFile(r) \/ WriteBlock(r) \/ CheckSize(r) \/ Callback(r)
      PROVE  Placed'
  <2>1. Moves(r) /\ UNCHANGED m
    BY <1>2, CallbackMoves DEF OwnTypes, storageVars, OpenFile, WriteBlock, CheckSize,
       Callback, Opened, Wrote, ReadChunk, ClosedFile, Failed
  <2> QED
    BY <1>0, <2>1 DEF Moves, Ready, Placed
<1>3. ASSUME NEW r \in Req, Answer(r) PROVE Placed'
  <2>1. \A id \in Id : m'[id] = m[id] \/ m'[id] = Null
    BY <1>3 DEF Answer, Transfers!DropPtr, Transfers!Erase, StorageP!TypeOK, storageVars
  <2> QED
    BY <1>0, <1>3, <2>1 DEF Answer, Free, OwnTypes, Placed
<1>4. ASSUME Tick \/ Destroy \/ UNCHANGED vars PROVE Placed'
  <2>1. UNCHANGED <<req, m>>
    BY <1>4 DEF Tick, Destroy, DestroyBegin, DestroyClosed, DestroyUnlinked, vars,
       storageVars, Transfers!Tick, Transfers!DestroyFinish
  <2> QED
    BY <1>0, <2>1 DEF Placed
<1> QED
  BY <1>1, <1>2, <1>3, <1>4 DEF Next, Resume

-----------------------------------------------------------------------------
\* The fifo's types and the async_map's, as far as they are used here.
Base == StorageP!AliveInv /\ FifoP!FifoInv /\ OwnTypes /\ Placed

\* The assumptions of AsyncStorage and SenderFifo hold here.
LEMMA StorageAssumptions ==
  /\ TRUE \in BOOLEAN
  /\ Null \notin Slot
  /\ StorageP!IsFiniteSet(Req) /\ Req \cap Id = {}
  /\ Id \subseteq Nat /\ StorageP!IsFiniteSet(Id)
<1>1. \A S : IsFiniteSet(S) => StorageP!IsFiniteSet(S)
  BY DEF IsFiniteSet, StorageP!IsFiniteSet
<1> QED
  BY <1>1, IdAssumption, ReqAssumption, NullAssumption

LEMMA BaseInit == Init => Base
<1> SUFFICES ASSUME Init PROVE Base
  OBVIOUS
<1>1. StorageP!AliveInv
  <2>1. StorageP!Init
    BY DEF Init, Transfers!Init, StorageP!Init
  <2> QED
    BY <2>1, StorageP!AliveInit, StorageAssumptions
<1>2. FifoP!FifoInv
  <2>1. FifoP!Init
    BY DEF Init, Workers!Init, FifoP!Init
  <2> QED
    BY <2>1, FifoP!FifoInit, NullAssumption
<1>3. Free \in Request
  BY Offsets DEF Free, Request
<1>4. Unused \in Members
  BY FdAssumption DEF Unused, Members
<1>5. FileTypeOK
  <2>1. \A k \in Fd : fds[k] \in [file : Slot \cup {Null, Stdin}, pos : 0..Blocks]
    BY SizeAssumption DEF Init, Closed
  <2>2. fds \in [Fd -> [file : Slot \cup {Null, Stdin}, pos : 0..Blocks]]
    BY <2>1 DEF Init
  <2> QED
    BY <2>2 DEF Init, FileTypeOK, Idle
<1> QED
  BY <1>1, <1>2, <1>3, <1>4, <1>5
  DEF Base, Init, OwnTypes, Placed, Free, Transfers!Init

LEMMA BaseStep == Base /\ [Next]_vars => Base'
<1> SUFFICES ASSUME Base, [Next]_vars PROVE Base'
  OBVIOUS
<1>1. StorageP!TypeOK
  BY DEF Base, StorageP!AliveInv, StorageP!CountInv
<1>2. StorageP!AliveInv'
  BY StorageStep, StorageP!AliveStep, StorageAssumptions DEF Base
<1>3. FifoP!FifoInv'
  BY <1>1, FifoStep, FifoP!FifoStep, NullAssumption DEF Base
<1>4. OwnTypes'
  BY <1>1, RequestTypes, SlotTypes, FileTypes DEF Base, OwnTypes
<1>5. Placed'
  BY <1>1, PlacedStep DEF Base
<1> QED
  BY <1>2, <1>3, <1>4, <1>5 DEF Base

LEMMA BaseInvariant == Spec => []Base
BY BaseInit, BaseStep, PTL DEF Spec

\* Every variable stays in its type: descriptors, offsets and positions in
\* particular, whatever the hub sends and whatever fails
\* (fs_transfer.hpp:23-105).
THEOREM TypeCorrect == Spec => []TypeOK
<1>1. Base => TypeOK
  BY DEF Base, OwnTypes, TypeOK, StorageP!AliveInv, StorageP!CountInv, StorageP!TypeOK,
     Transfers!TypeOK, FifoP!FifoInv, FifoP!TypeOK, Workers!TypeOK
<1> QED
  BY <1>1, BaseInvariant, PTL

-----------------------------------------------------------------------------
\* The async_map of the transfers is used as AsyncStorage says, with pointers
\* taken only from objects that are referred to: its theorems hold here.
THEOREM UsesStorage == Spec => Transfers!Spec
<1>1. Init => Transfers!Init
  BY DEF Init
<1>2. Uses \/ UNCHANGED storageVars => [Transfers!Next]_(Transfers!storageVars)
  BY DEF Uses, Transfers!Next, storageVars, Transfers!storageVars
<1>3. Base /\ [Next]_vars => Uses \/ UNCHANGED storageVars
  BY StepUses DEF Base
<1> QED
  BY <1>1, <1>2, <1>3, BaseInvariant, PTL DEF Spec, Transfers!Spec

\* So the slot of a transfer is created once, destroyed by one destroy task when
\* the last request and the map have dropped it, never while another is being
\* destroyed, and reclaimed after that (fs_transfer.hpp:83-105, 135-191).
THEOREM SlotsLiveOnce == Spec => StorageP!LifetimeSpec
<1>1. Init => StorageP!Init
  BY DEF Init, Transfers!Init, StorageP!Init
<1>2. Base /\ [Next]_vars => [StorageP!Next]_(StorageP!storageVars)
  BY StorageStep DEF Base
<1>3. Spec => StorageP!Spec
  BY <1>1, <1>2, BaseInvariant, PTL DEF Spec, StorageP!Spec
<1>4. StorageP!Spec => StorageP!LifetimeSpec
  BY StorageP!ImplementsLifetime, StorageAssumptions
<1> QED
  BY <1>3, <1>4, PTL

\* The fifos of the slots are used as SenderFifo says, so that the operations
\* on the file of a slot run one at a time, in the order of the requests
\* (fs_transfer.hpp:23, 58, 74).
THEOREM UsesFifo == Spec => Workers!Spec
<1>1. Init => Workers!Init
  BY DEF Init
<1>2. [FifoP!Next]_(FifoP!fifoVars) => [Workers!Next]_(Workers!fifoVars)
  BY DEF FifoP!Next, Workers!Next, FifoP!fifoVars, Workers!fifoVars, FifoP!Start,
     Workers!Start, FifoP!Complete, Workers!Complete, FifoP!OnEnd, Workers!OnEnd
<1>3. Base /\ [Next]_vars => [FifoP!Next]_(FifoP!fifoVars)
  BY FifoStep DEF Base, StorageP!AliveInv, StorageP!CountInv
<1> QED
  BY <1>1, <1>2, <1>3, BaseInvariant, PTL DEF Spec, Workers!Spec

-----------------------------------------------------------------------------
\* The requests and the fifos know the same turns.
InLine ==
    \A r \in Req :
        /\ state[r] = "idle" <=> req[r].stage \in Ready
        /\ state[r] # "idle" => core[r] = req[r].slot

\* A slot is new once, and the entry of one transfer at a time.
SlotsAreOwn ==
    /\ \A i, j \in Id : m[i] # Null /\ m[i] = m[j] => i = j
    /\ \A i \in Id : m[i] # Null => mem[m[i]] # "unused"
    /\ \A r \in Req : req[r].stage # "free" => mem[req[r].slot] # "unused"
    /\ \A r \in Req : req[r].kind = "none" <=> req[r].stage = "free"

\* A start holds its slot; data and ends have the entry.
EntriesStay ==
    \A r \in Req :
        /\ req[r].kind = "start" => held[r] = req[r].slot
        /\ req[r].kind = "data" /\ req[r].stage # "answer" => m[req[r].id] = req[r].slot
        /\ req[r].kind = "end" => m[req[r].id] = req[r].slot

\* The end of a transfer is one, and the last in the fifo of the slot.
EndIsLast ==
    /\ \A r, q \in Req : req[r].kind = "end" /\ req[q].kind = "end"
         /\ req[r].id = req[q].id => r = q
    /\ \A r \in Req : req[r].kind = "end" =>
         LET q == waiters[req[r].slot] IN
         /\ state[r] = "waiting" => Len(q) > 0 /\ q[Len(q)] = r
         /\ state[r] # "waiting" => q = <<>>
         /\ state[r] = "idle" => current[req[r].slot] = Null

OrderInv == InLine /\ SlotsAreOwn /\ EntriesStay /\ EndIsLast

LEMMA OrderInit == Init => OrderInv
BY DEF Init, Transfers!Init, Workers!Init, OrderInv, InLine, SlotsAreOwn, EntriesStay,
   EndIsLast, Free, Ready

\* What a step does to the places in the fifos.
LEMMA StartPlaces ==
  ASSUME FifoP!FifoInv, NEW s \in Slot, NEW r \in Req, FifoP!Start(s, r)
  PROVE  /\ state[r] = "idle" /\ state'[r] # "idle" /\ core'[r] = s
         /\ \A q \in Req : q # r => state'[q] = state[q] /\ core'[q] = core[q]
         /\ \A t \in Slot : t # s =>
              waiters'[t] = waiters[t] /\ current'[t] = current[t]
         /\ state'[r] = "waiting" => Len(waiters'[s]) > 0 /\ waiters'[s][Len(waiters'[s])] = r
         /\ state'[r] # "waiting" => waiters'[s] = <<>>
<1> USE DEF FifoP!FifoInv, FifoP!TypeOK
<1>1. waiters[s] \in Seq(Req)
  OBVIOUS
<1>2. CASE current[s] = Null
  <2>1. waiters[s] = <<>>
    BY <1>2 DEF FifoP!SomebodyRuns
  <2> QED
    BY <1>2, <2>1 DEF FifoP!Start
<1>3. CASE current[s] # Null
  <2>1. /\ Len(Append(waiters[s], r)) > 0
        /\ Append(waiters[s], r)[Len(Append(waiters[s], r))] = r
    BY <1>1
  <2> QED
    BY <1>3, <2>1 DEF FifoP!Start
<1> QED
  BY <1>2, <1>3

LEMMA CompletePlaces ==
  ASSUME FifoP!FifoInv, NEW r \in Req, NEW s \in Slot, core[r] = s, FifoP!Complete(r)
  PROVE  /\ state[r] = "running" /\ current[s] = r /\ state'[r] = "idle"
         /\ \A q \in Req : q # r => core'[q] = core[q]
                                 /\ (state'[q] = "idle" <=> state[q] = "idle")
         /\ \A q \in Req : q # r /\ core[q] # s => state'[q] = state[q]
         /\ \A t \in Slot : t # s =>
              waiters'[t] = waiters[t] /\ current'[t] = current[t]
         /\ waiters[s] = <<>> => waiters'[s] = <<>> /\ current'[s] = Null
         /\ waiters[s] # <<>> => /\ waiters'[s] = Tail(waiters[s])
                                /\ state'[Head(waiters[s])] = "running"
                                /\ \A q \in Req : q \notin {r, Head(waiters[s])} =>
                                     state'[q] = state[q]
<1> USE DEF FifoP!FifoInv, FifoP!TypeOK
<1>1. waiters[s] \in Seq(Req) /\ current[s] = r /\ state[r] = "running"
  BY DEF FifoP!CurrentRuns, FifoP!Complete
<1>2. CASE waiters[s] = <<>>
  BY <1>1, <1>2 DEF FifoP!Complete, FifoP!OnEnd
<1>3. CASE waiters[s] # <<>>
  <2> DEFINE h == Head(waiters[s])
  <2>1. h \in Req /\ h = waiters[s][1] /\ 1 \in 1..Len(waiters[s])
    BY <1>1, <1>3
  <2>2. state[h] = "waiting" /\ core[h] = s /\ h # r
    BY <1>1, <2>1 DEF FifoP!WaitersWait
  <2>3. /\ waiters' = [waiters EXCEPT ![s] = Tail(@)]
        /\ current' = [current EXCEPT ![s] = h]
        /\ state' = [state EXCEPT ![r] = "idle", ![h] = "running"]
        /\ core' = [core EXCEPT ![r] = Null]
    BY <1>3 DEF FifoP!Complete, FifoP!OnEnd
  <2> HIDE DEF h
  <2>4. /\ state'[r] = "idle" /\ state'[h] = "running"
        /\ \A q \in Req : q \notin {r, h} => state'[q] = state[q]
    BY <2>1, <2>2, <2>3
  <2>5. /\ waiters'[s] = Tail(waiters[s])
        /\ \A t \in Slot : t # s => waiters'[t] = waiters[t] /\ current'[t] = current[t]
        /\ \A q \in Req : q # r => core'[q] = core[q]
    BY <2>3
  <2> QED
    BY <1>1, <1>3, <2>2, <2>4, <2>5 DEF h
<1> QED
  BY <1>2, <1>3

\* A new request joins the fifo of a slot of which no end is in progress.
LEMMA HandleKeepsOrder ==
  ASSUME Base, OrderInv, NEW r \in Req, NEW kind \in {"start", "data", "end"}, NEW id \in Id,
         NEW s \in Slot, NEW off, NEW match, Handle(r, kind, id, s, off, match),
         \A q \in Req : req[q].kind = "end" => req[q].slot # s /\ req[q].id # id
  PROVE  InLine' /\ EndIsLast'
<1> USE DEF Base, OrderInv, Ready
<1>1. /\ \A x \in Req : x # r => req'[x] = req[x]
      /\ req[r].stage = "free" /\ req'[r].stage = "wrapped"
      /\ req'[r].kind = kind /\ req'[r].id = id /\ req'[r].slot = s
      /\ FifoP!Start(s, r)
  BY HandleSets DEF OwnTypes
<1>2. /\ state[r] = "idle" /\ state'[r] # "idle" /\ core'[r] = s
      /\ \A q \in Req : q # r => state'[q] = state[q] /\ core'[q] = core[q]
      /\ \A t \in Slot : t # s => waiters'[t] = waiters[t] /\ current'[t] = current[t]
      /\ state'[r] = "waiting" => Len(waiters'[s]) > 0 /\ waiters'[s][Len(waiters'[s])] = r
      /\ state'[r] # "waiting" => waiters'[s] = <<>>
  BY <1>1, StartPlaces
<1>3. InLine'
  BY <1>1, <1>2 DEF InLine
<1>4. ASSUME NEW x \in Req, NEW y \in Req, req'[x].kind = "end", req'[y].kind = "end",
             req'[x].id = req'[y].id
      PROVE  x = y
  BY <1>1, <1>4 DEF EndIsLast
<1>5. ASSUME NEW x \in Req, req'[x].kind = "end"
      PROVE  LET q == waiters'[req'[x].slot] IN
             /\ state'[x] = "waiting" => Len(q) > 0 /\ q[Len(q)] = x
             /\ state'[x] # "waiting" => q = <<>>
             /\ state'[x] = "idle" => current'[req'[x].slot] = Null
  <2>1. CASE x = r
    BY <1>1, <1>2, <2>1
  <2>2. CASE x # r
    <3>1. req[x].slot \in Slot /\ req[x].slot # s
      BY <1>1, <1>5, <2>2 DEF SlotsAreOwn, Placed
    <3> QED
      BY <1>1, <1>2, <1>5, <2>2, <3>1 DEF EndIsLast
  <2> QED
    BY <2>1, <2>2
<1> QED
  BY <1>3, <1>4, <1>5 DEF EndIsLast

\* The first of a list whose last is r, and the list without it.
LEMMA LastStays ==
  ASSUME NEW q \in Seq(Req), Len(q) > 0, NEW r \in Req, q[Len(q)] = r,
         \A i, j \in 1..Len(q) : q[i] = q[j] => i = j
  PROVE  /\ Head(q) = r => Tail(q) = <<>>
         /\ Head(q) # r => Len(Tail(q)) > 0 /\ Tail(q)[Len(Tail(q))] = r
<1>1. Head(q) = q[1] /\ Len(Tail(q)) = Len(q) - 1 /\ Len(q) \in Nat
  OBVIOUS
<1>2. ASSUME Head(q) = r PROVE Tail(q) = <<>>
  <2>1. 1 \in 1..Len(q) /\ Len(q) \in 1..Len(q)
    BY <1>1
  <2>2. Len(q) = 1
    BY <1>1, <1>2, <2>1
  <2>3. Tail(q) \in Seq(Req) /\ Len(Tail(q)) = 0
    <3>1. q # <<>>
      OBVIOUS
    <3> QED
      BY <1>1, <2>2, <3>1, HeadTailProperties
  <2> QED
    BY <2>3, EmptySeq
<1>3. ASSUME Head(q) # r PROVE Len(Tail(q)) > 0 /\ Tail(q)[Len(Tail(q))] = r
  <2>1. Len(q) > 1
    BY <1>1, <1>3
  <2>2. Tail(q)[Len(q) - 1] = q[Len(q)]
    BY <1>1, <2>1
  <2> QED
    BY <1>1, <2>1, <2>2
<1> QED
  BY <1>2, <1>3

\* A request that goes on is the current one of its slot: if it is not the
\* end, the end still waits behind it.
LEMMA MovesKeepOrder ==
  ASSUME Base, OrderInv, NEW r \in Req, Moves(r)
  PROVE  InLine' /\ EndIsLast'
<1> USE DEF Base, OrderInv, Ready
<1>1. CASE UNCHANGED fifoVars /\ req'[r].stage \notin Ready
  BY <1>1 DEF fifoVars, Moves, InLine, EndIsLast
<1>2. CASE FifoP!Complete(r) /\ req'[r].stage = "answer"
  <2> DEFINE s == req[r].slot
  <2>1. s \in Slot /\ core[r] = s
    BY DEF Moves, Placed, InLine
  <2>2. /\ state[r] = "running" /\ current[s] = r /\ state'[r] = "idle"
        /\ \A q \in Req : q # r => core'[q] = core[q]
                                /\ (state'[q] = "idle" <=> state[q] = "idle")
        /\ \A q \in Req : q # r /\ core[q] # s => state'[q] = state[q]
        /\ \A t \in Slot : t # s => waiters'[t] = waiters[t] /\ current'[t] = current[t]
        /\ waiters[s] = <<>> => waiters'[s] = <<>> /\ current'[s] = Null
        /\ waiters[s] # <<>> => /\ waiters'[s] = Tail(waiters[s])
                               /\ state'[Head(waiters[s])] = "running"
                               /\ \A q \in Req : q \notin {r, Head(waiters[s])} =>
                                    state'[q] = state[q]
    BY <1>2, <2>1, CompletePlaces
  <2>3. InLine'
    BY <1>2, <2>2 DEF InLine, Moves
  <2>4. ASSUME NEW x \in Req, req[x].kind = "end"
        PROVE  LET q == waiters'[req[x].slot] IN
               /\ state'[x] = "waiting" => Len(q) > 0 /\ q[Len(q)] = x
               /\ state'[x] # "waiting" => q = <<>>
               /\ state'[x] = "idle" => current'[req[x].slot] = Null
    <3>1. req[x].slot \in Slot
      BY <2>4 DEF SlotsAreOwn, Placed
    <3>2. CASE x = r
      <4>1. waiters[s] = <<>>
        BY <2>2, <2>4, <3>2 DEF EndIsLast
      <4> QED
        BY <2>2, <3>2, <4>1
    <3>3. CASE req[x].slot # s
      <4>1. state'[x] = state[x]
        BY <2>2, <3>3 DEF InLine
      <4> QED
        BY <2>2, <2>4, <3>1, <3>3, <4>1 DEF EndIsLast
    <3>4. CASE x # r /\ req[x].slot = s
      <4>1. state[x] # "idle"
        BY <2>1, <2>2, <2>4, <3>4, NullAssumption DEF EndIsLast
      <4>2. state[x] = "waiting"
        <5>1. state[x] = "running" => current[core[x]] = x
          BY DEF FifoP!FifoInv, FifoP!CurrentRuns
        <5> QED
          BY <2>2, <3>4, <4>1, <5>1 DEF InLine, FifoP!FifoInv, FifoP!TypeOK
      <4>3. /\ waiters[s] \in Seq(Req) /\ Len(waiters[s]) > 0
            /\ waiters[s][Len(waiters[s])] = x
            /\ \A i, j \in 1..Len(waiters[s]) : waiters[s][i] = waiters[s][j] => i = j
        BY <2>1, <2>4, <3>4, <4>2 DEF EndIsLast, FifoP!FifoInv, FifoP!TypeOK,
           FifoP!WaitersWait
      <4>4. waiters[s] # <<>>
        BY <4>3
      <4>5. /\ Head(waiters[s]) = x => Tail(waiters[s]) = <<>>
            /\ Head(waiters[s]) # x => /\ Len(Tail(waiters[s])) > 0
                                       /\ Tail(waiters[s])[Len(Tail(waiters[s]))] = x
        BY <4>3, LastStays
      <4> QED
        BY <2>2, <3>4, <4>2, <4>4, <4>5
    <3> QED
      BY <3>2, <3>3, <3>4
  <2>5. \A x \in Req : req'[x].kind = req[x].kind /\ req'[x].id = req[x].id
                      /\ req'[x].slot = req[x].slot
    BY DEF Moves
  <2>6. EndIsLast'
    BY <2>4, <2>5 DEF EndIsLast
  <2> QED
    BY <2>3, <2>6
<1> QED
  BY <1>1, <1>2 DEF Moves

\* The other steps leave the fifos alone.
LEMMA AnswerKeepsEntries ==
  ASSUME Base, OrderInv, NEW r \in Req, Answer(r)
  PROVE  EntriesStay'
<1> USE DEF Base, OrderInv, Ready
<1>0. /\ req' = [req EXCEPT ![r] = Free] /\ req[r].stage = "answer" /\ req[r].id \in Id
  BY DEF Answer, Placed
<1>1. CASE req[r].kind = "end" /\ Transfers!Erase(req[r].id)
  <2>1. m' = [m EXCEPT ![req[r].id] = Null] /\ UNCHANGED held
    BY <1>1 DEF Transfers!Erase
  <2>2. ASSUME NEW x \in Req, x # r, req[x].kind = "end" PROVE m'[req[x].id] = m[req[x].id]
    BY <1>1, <2>1, <2>2 DEF EndIsLast, StorageP!AliveInv, StorageP!CountInv, StorageP!TypeOK
  <2>3. ASSUME NEW x \in Req, x # r, req[x].kind = "data", req[x].stage # "answer"
        PROVE  m'[req[x].id] = m[req[x].id]
    <3>1. CASE req[x].id # req[r].id
      BY <2>1, <3>1 DEF StorageP!AliveInv, StorageP!CountInv, StorageP!TypeOK
    <3>2. CASE req[x].id = req[r].id
      <4> DEFINE s == req[r].slot
      <4>1. req[x].slot = s /\ s \in Slot
        BY <1>0, <1>1, <2>3, <3>2 DEF EntriesStay, Placed
      <4>2. waiters[s] = <<>> /\ current[s] = Null
        BY <1>0, <1>1 DEF InLine, EndIsLast
      <4>3. state[x] # "idle" /\ core[x] = s
        BY <2>3, <4>1 DEF InLine, SlotsAreOwn
      <4>4. CASE state[x] = "running"
        BY <4>2, <4>3, <4>4, NullAssumption DEF FifoP!FifoInv, FifoP!CurrentRuns
      <4>5. CASE state[x] = "waiting"
        <5>1. PICK i \in 1..Len(waiters[s]) : waiters[s][i] = x
          BY <4>1, <4>3, <4>5 DEF FifoP!FifoInv, FifoP!WaitingListed
        <5> QED
          BY <4>2, <5>1
      <4> QED
        BY <4>3, <4>4, <4>5 DEF FifoP!FifoInv, FifoP!TypeOK
    <3> QED
      BY <3>1, <3>2
  <2> QED
    BY <1>0, <2>1, <2>2, <2>3 DEF EntriesStay, Free, OwnTypes
<1>2. CASE req[r].kind = "start" /\ Transfers!DropPtr(r)
  <2>1. held' = [held EXCEPT ![r] = Null] /\ UNCHANGED m
    BY <1>2 DEF Transfers!DropPtr
  <2> QED
    BY <1>0, <2>1 DEF EntriesStay, Free, OwnTypes, StorageP!AliveInv, StorageP!CountInv,
       StorageP!TypeOK
<1>3. CASE UNCHANGED storageVars
  BY <1>0, <1>3 DEF EntriesStay, Free, OwnTypes, storageVars
<1> QED
  BY <1>1, <1>2, <1>3 DEF Answer

LEMMA OrderStep ==
  ASSUME "end_is_last" \in Hub
  PROVE  Base /\ OrderInv /\ [Next]_vars => OrderInv'
<1> SUFFICES ASSUME Base, OrderInv, [Next]_vars PROVE OrderInv'
  OBVIOUS
<1> USE DEF OrderInv
<1>0. /\ m \in [Id -> Slot \cup {Null}] /\ held \in [Req -> Slot \cup {Null}]
      /\ mem \in [Slot -> {"unused", "allocated", "freed"}]
      /\ req \in [Req -> Request]
  BY DEF Base, StorageP!AliveInv, StorageP!CountInv, StorageP!TypeOK, OwnTypes
\* An end is in the way of every request of its slot and its id.
<1>1. ASSUME NEW id \in Id, m[id] # Null, HubSends(id), NEW q \in Req, req[q].kind = "end"
      PROVE  req[q].slot # m[id] /\ req[q].id # id
  <2>1. req[q].stage # "free"
    BY <1>1 DEF SlotsAreOwn
  <2>2. req[q].id # id
    BY <1>1, <2>1 DEF HubSends, InProgress
  <2>3. m[req[q].id] = req[q].slot /\ req[q].id \in Id
    BY <1>1, <2>1 DEF EntriesStay, Base, Placed
  <2> QED
    BY <1>1, <2>2, <2>3 DEF SlotsAreOwn
<1>2. ASSUME NEW r \in Req, NEW id \in Id, NEW kind \in {"data", "end"}, NEW off, NEW match,
             m[id] # Null, HubSends(id), UNCHANGED storageVars,
             Handle(r, kind, id, m[id], off, match)
      PROVE  OrderInv'
  <2>1. m[id] \in Slot /\ kind \in {"start", "data", "end"}
    BY <1>0, <1>2
  <2>2. InLine' /\ EndIsLast'
    BY <1>1, <1>2, <2>1, HandleKeepsOrder
  <2>3. /\ \A x \in Req : x # r => req'[x] = req[x]
        /\ req'[r].stage = "wrapped" /\ req'[r].kind = kind /\ req'[r].id = id
        /\ req'[r].slot = m[id] /\ UNCHANGED <<m, mem, held>>
    BY <1>0, <1>2, <2>1, HandleSets DEF storageVars
  <2>4. SlotsAreOwn'
    BY <1>2, <2>1, <2>3 DEF SlotsAreOwn
  <2>5. EntriesStay'
    BY <1>2, <2>1, <2>3 DEF EntriesStay
  <2> QED
    BY <2>2, <2>4, <2>5
<1>3. ASSUME NEW r \in Req, NEW id \in Id, NEW s \in Slot, NEW p \in Path, NEW n \in Size,
             StartTransfer(r, id, s, p, n)
      PROVE  OrderInv'
  <2>1. /\ m[id] = Null /\ mem[s] = "unused" /\ held[r] = Null
        /\ m' = [m EXCEPT ![id] = s] /\ mem' = [mem EXCEPT ![s] = "allocated"]
        /\ held' = [held EXCEPT ![r] = s]
        /\ Handle(r, "start", id, s, 0, FALSE)
    BY <1>3 DEF StartTransfer, Transfers!Emplace, Transfers!Allocate
  <2>2. \A i \in Id : m[i] # s
    BY <1>3, <2>1, NullAssumption DEF SlotsAreOwn
  <2>3. \A q \in Req : req[q].kind # "none" =>
          req[q].id \in Id /\ req[q].slot \in Slot /\ req[q].slot # s
    BY <2>1 DEF SlotsAreOwn, Base, Placed
  <2>4. \A q \in Req : req[q].kind = "end" => req[q].slot # s /\ req[q].id # id
    BY <2>1, <2>3, NullAssumption DEF EntriesStay
  <2>5. InLine' /\ EndIsLast'
    BY <2>1, <2>4, HandleKeepsOrder
  <2>6. /\ \A x \in Req : x # r => req'[x] = req[x]
        /\ req'[r].stage = "wrapped" /\ req'[r].kind = "start" /\ req'[r].id = id
        /\ req'[r].slot = s
    BY <1>0, <2>1, HandleSets
  <2>7. SlotsAreOwn'
    <3>1. \A i, j \in Id : m'[i] # Null /\ m'[i] = m'[j] => i = j
      BY <1>0, <2>1, <2>2 DEF SlotsAreOwn
    <3>2. \A i \in Id : m'[i] # Null => mem'[m'[i]] # "unused"
      BY <1>0, <2>1, <2>2 DEF SlotsAreOwn
    <3>3. /\ \A x \in Req : req'[x].stage # "free" => mem'[req'[x].slot] # "unused"
          /\ \A x \in Req : req'[x].kind = "none" <=> req'[x].stage = "free"
      BY <1>0, <2>1, <2>3, <2>6 DEF SlotsAreOwn
    <3> QED
      BY <3>1, <3>2, <3>3 DEF SlotsAreOwn
  <2>8. EntriesStay'
    <3>1. ASSUME NEW x \in Req, x # r, req[x].kind # "none"
          PROVE  held'[x] = held[x] /\ (m[req[x].id] = req[x].slot => m'[req[x].id] = req[x].slot)
      BY <1>0, <2>1, <2>3, <3>1, NullAssumption
    <3> QED
      BY <1>0, <2>1, <2>6, <3>1 DEF EntriesStay
  <2> QED
    BY <2>5, <2>7, <2>8
<1>4. ASSUME NEW r \in Req, OpenFile(r) \/ WriteBlock(r) \/ CheckSize(r) \/ Callback(r)
      PROVE  OrderInv'
  <2>1. Moves(r)
    BY <1>0, <1>4, CallbackMoves
  <2>2. UNCHANGED storageVars
    BY <1>4 DEF OpenFile, WriteBlock, CheckSize, Callback, Opened, Wrote, ReadChunk,
       ClosedFile, Failed
  <2>3. SlotsAreOwn'
    BY <2>1, <2>2 DEF SlotsAreOwn, Moves, Ready, storageVars
  <2>4. EntriesStay'
    BY <2>1, <2>2 DEF EntriesStay, Moves, Ready, storageVars
  <2> QED
    BY <2>1, <2>3, <2>4, MovesKeepOrder
<1>5. ASSUME NEW r \in Req, Answer(r) PROVE OrderInv'
  <2>1. /\ req' = [req EXCEPT ![r] = Free] /\ UNCHANGED fifoVars
        /\ req[r].stage = "answer"
    BY <1>5 DEF Answer
  <2>2. (\A i \in Id : m'[i] = m[i] \/ m'[i] = Null) /\ UNCHANGED mem
    BY <1>0, <1>5 DEF Answer, Transfers!DropPtr, Transfers!Erase, storageVars
  <2>3. InLine'
    BY <1>0, <2>1 DEF InLine, Ready, Free, fifoVars
  <2>4. SlotsAreOwn'
    BY <1>0, <2>1, <2>2 DEF SlotsAreOwn, Free
  <2>5. EndIsLast'
    BY <1>0, <2>1 DEF EndIsLast, Free, fifoVars
  <2> QED
    BY <1>5, <2>3, <2>4, <2>5, AnswerKeepsEntries
<1>6. ASSUME Tick \/ Destroy \/ UNCHANGED vars PROVE OrderInv'
  <2>1. /\ UNCHANGED <<req, m, held>> /\ UNCHANGED fifoVars
        /\ \A s \in Slot : mem[s] # "unused" => mem'[s] # "unused"
    BY <1>0, <1>6 DEF Tick, Destroy, DestroyBegin, DestroyClosed, DestroyUnlinked, vars,
       storageVars, fifoVars, Transfers!Tick, Transfers!TickErase, Transfers!DestroyFinish
  <2>2. InLine' /\ EndIsLast'
    BY <2>1 DEF InLine, EndIsLast, fifoVars
  <2>3. SlotsAreOwn' /\ EntriesStay'
    BY <1>0, <2>1 DEF SlotsAreOwn, EntriesStay, Base, Placed
  <2> QED
    BY <2>2, <2>3
<1>7. ASSUME Requests PROVE OrderInv'
  BY <1>2, <1>3, <1>7 DEF Requests, TransferData, EndTransfer
<1> QED
  BY <1>4, <1>5, <1>6, <1>7 DEF Next, Resume

\* If the hub sends nothing of a transfer after its end, no request outlives
\* the slot it works on, and the iterator that an end keeps over its wait is
\* still the slot's (fs_transfer.hpp:150-152, 167-176, 183-191).
THEOREM NoneOutlivesItsSlot ==
  ASSUME "end_is_last" \in Hub
  PROVE  Spec => []SlotsOutliveRequests
<1>1. Base /\ OrderInv => SlotsOutliveRequests
  <2> SUFFICES ASSUME Base, OrderInv, NEW r \in Req, req[r].kind = "start"
               PROVE  mem[req[r].slot] = "allocated"
    BY DEF OrderInv, EntriesStay, SlotsOutliveRequests
  <2>1. req[r].slot \in Slot /\ held[r] = req[r].slot
    BY DEF OrderInv, EntriesStay, SlotsAreOwn, Base, Placed
  <2>2. StorageP!ReferencedIsAlive
    BY StorageP!AliveIsSafe, StorageAssumptions DEF Base
  <2>3. StorageP!Refs(req[r].slot) # {}
    BY <2>1 DEF StorageP!Refs
  <2> QED
    BY <2>1, <2>2, <2>3 DEF StorageP!ReferencedIsAlive
<1>2. Base /\ OrderInv /\ [Next]_vars => OrderInv'
  BY OrderStep
<1> QED
  BY <1>1, <1>2, OrderInit, BaseInvariant, PTL DEF Spec

-----------------------------------------------------------------------------
(***************************************************************************)
(* The descriptors and the files, if no close fails and no upload is       *)
(* empty.                                                                  *)
(***************************************************************************)

\* A slot has a file open from the callback of its open to that of its close.
Open(s) == slots[s].fh # 0 /\ ~(destroyer.step = "unlink" /\ destroy_task = s)

OpenIsOwn ==
    /\ fds[0].file = Stdin
    /\ \A s \in Slot : Open(s) =>
         /\ fds[slots[s].fh].file = slots[s].file
         /\ slots[s].file \in Slot
         /\ mem[s] = "allocated"
    /\ \A s, t \in Slot : Open(s) /\ Open(t) /\ slots[s].fh = slots[t].fh => s = t
    /\ \A k \in Fd : fds[k].file \notin {Null, Stdin} =>
         \E s \in Slot : Open(s) /\ slots[s].fh = k

\* destroy() works on the descriptor of its slot, which is 0 when it ends.
Destroying ==
    /\ destroyer.step # "idle" =>
         destroy_task # Null /\ to_erase = Null /\ slots[destroy_task].fh # 0
    /\ destroyer.step = "close" => destroyer.fd = slots[destroy_task].fh
    /\ to_erase # Null => slots[to_erase].fh = 0

Works(r) ==
    /\ req[r].stage \in InFile \cup {"open"} => state[r] = "running"
    /\ req[r].stage \in InFile => req[r].fd = slots[req[r].slot].fh
    /\ req[r].stage \in InFile /\ req[r].fd = 0 => slots[req[r].slot].file = Null
    /\ req[r].stage = "close" => req[r].fd # 0
    /\ req[r].stage # "free" => slots[req[r].slot].filesize \in Size

Working == \A r \in Req : Works(r)

\* There is one start of a slot, and nothing open before it.
Starting ==
    /\ \A r \in Req : req[r].kind = "start" /\ req[r].stage # "answer" =>
         slots[req[r].slot].fh = 0 /\ slots[req[r].slot].file = Null
    /\ \A r, q \in Req : req[r].kind = "start" /\ req[q].kind = "start"
         /\ req[r].slot = req[q].slot => r = q

Ended(s) ==
    \E r \in Req : req[r].kind = "end" /\ req[r].stage = "answer" /\ req[r].slot = s

\* Until its end a slot has its file open, unless it never was.
Unopened ==
    \A id \in Id : m[id] # Null =>
        /\ slots[m[id]].filesize \in Size
        /\ ~Ended(m[id]) => slots[m[id]].fh # 0 \/ slots[m[id]].file = Null

FdInv == OpenIsOwn /\ Destroying /\ Working /\ Starting /\ Unopened

FdBase == Base /\ OrderInv /\ FdInv

LEMMA FdInit == Init => FdInv
BY FdAssumption DEF Init, Transfers!Init, FdInv, OpenIsOwn, Open, Destroying, Working, Works,
   Starting, Unopened, Unused, Free, Idle, Closed, InFile

-----------------------------------------------------------------------------
\* Slots that something refers to are not those of the destroy task.
LEMMA EntryInUse ==
  ASSUME Base, NEW id \in Id, m[id] # Null
  PROVE  m[id] \in Slot /\ mem[m[id]] = "allocated" /\ destroy_task # m[id]
<1>1. StorageP!ReferencedIsAlive
  BY StorageP!AliveIsSafe, StorageAssumptions DEF Base
<1>2. m[id] \in Slot
  BY DEF Base, StorageP!AliveInv, StorageP!CountInv, StorageP!TypeOK
<1>3. id \in StorageP!Refs(m[id])
  BY DEF StorageP!Refs
<1> QED
  BY <1>1, <1>2, <1>3 DEF StorageP!ReferencedIsAlive

LEMMA StartInUse ==
  ASSUME Base, OrderInv, NEW r \in Req, req[r].kind = "start"
  PROVE  /\ req[r].slot \in Slot /\ mem[req[r].slot] = "allocated"
         /\ destroy_task # req[r].slot
<1>1. StorageP!ReferencedIsAlive
  BY StorageP!AliveIsSafe, StorageAssumptions DEF Base
<1>2. req[r].slot \in Slot /\ held[r] = req[r].slot
  BY DEF OrderInv, EntriesStay, SlotsAreOwn, Base, Placed
<1>3. r \in StorageP!Refs(req[r].slot)
  BY <1>2 DEF StorageP!Refs
<1> QED
  BY <1>1, <1>2, <1>3 DEF StorageP!ReferencedIsAlive

LEMMA BusyInUse ==
  ASSUME Base, OrderInv, NEW r \in Req, req[r].stage \notin Ready
  PROVE  /\ req[r].slot \in Slot /\ mem[req[r].slot] = "allocated"
         /\ destroy_task # req[r].slot
         /\ state[r] # "idle" /\ core[r] = req[r].slot
         /\ req[r].kind # "start" => m[req[r].id] = req[r].slot /\ req[r].id \in Id
<1>1. req[r].slot \in Slot /\ req[r].id \in Id
  BY DEF Base, Placed, Ready
<1>2. state[r] # "idle" /\ core[r] = req[r].slot
  BY DEF OrderInv, InLine
<1>3. req[r].kind \in {"start", "data", "end"}
  BY DEF OrderInv, SlotsAreOwn, Base, OwnTypes, Request, Ready
<1>4. CASE req[r].kind = "start"
  BY <1>2, <1>4, StartInUse
<1>5. CASE req[r].kind # "start"
  <2>1. m[req[r].id] = req[r].slot
    BY <1>3, <1>5 DEF OrderInv, EntriesStay, Ready
  <2> QED
    BY <1>1, <1>2, <1>5, <2>1, EntryInUse, NullAssumption
<1> QED
  BY <1>4, <1>5

LEMMA TaskInUse ==
  ASSUME Base
  PROVE  /\ destroy_task \in Slot \cup {Null}
         /\ destroy_task # Null => mem[destroy_task] = "allocated"
         /\ to_erase # Null => to_erase = destroy_task
BY DEF Base, StorageP!AliveInv, StorageP!CountInv, StorageP!TypeOK, StorageP!QueueInv,
   StorageP!TaskInv

\* An operation that goes on is not behind the answer of an end.
LEMMA NotEnded ==
  ASSUME Base, OrderInv, NEW r \in Req, req[r].stage \notin Ready
  PROVE  ~Ended(req[r].slot)
<1> SUFFICES ASSUME NEW q \in Req, req[q].kind = "end", req[q].stage = "answer",
                    req[q].slot = req[r].slot
             PROVE  FALSE
  BY DEF Ended
<1> DEFINE s == req[r].slot
<1>1. s \in Slot /\ state[r] # "idle" /\ core[r] = s
  BY BusyInUse
<1>2. waiters[s] = <<>> /\ current[s] = Null
  BY DEF OrderInv, InLine, Ready, EndIsLast
<1>3. CASE state[r] = "running"
  BY <1>1, <1>2, <1>3, NullAssumption DEF Base, FifoP!FifoInv, FifoP!CurrentRuns
<1>4. CASE state[r] = "waiting"
  BY <1>1, <1>2, <1>4 DEF Base, FifoP!FifoInv, FifoP!WaitingListed
<1> QED
  BY <1>1, <1>3, <1>4 DEF Base, FifoP!FifoInv, FifoP!TypeOK

\* Operations that run are on different slots, and go on running.
LEMMA OneRuns ==
  ASSUME Base, NEW r \in Req, NEW x \in Req, x # r, state[r] = "running",
         state[x] = "running"
  PROVE  core[x] # core[r]
BY DEF Base, FifoP!FifoInv, FifoP!CurrentRuns

LEMMA RunningStays ==
  ASSUME Base, OrderInv, NEW r \in Req, Moves(r), NEW x \in Req, x # r,
         state[x] = "running"
  PROVE  state'[x] = "running"
<1>1. CASE UNCHANGED fifoVars
  BY <1>1 DEF fifoVars
<1>2. CASE FifoP!Complete(r)
  <2> DEFINE s == req[r].slot
  <2>1. s \in Slot /\ core[r] = s
    BY BusyInUse DEF Moves
  <2>2. state[r] = "running" /\ \A q \in Req : q # r /\ core[q] # s => state'[q] = state[q]
    BY <1>2, <2>1, CompletePlaces DEF Base
  <2> QED
    BY <2>1, <2>2, OneRuns
<1> QED
  BY <1>1, <1>2 DEF Moves

-----------------------------------------------------------------------------
\* Most steps leave the files of the slots alone.
FilesKept ==
    /\ \A k \in Fd : fds'[k].file = fds[k].file
    /\ \A s \in Slot : /\ slots'[s].fh = slots[s].fh
                       /\ slots'[s].file = slots[s].file
                       /\ slots'[s].filesize = slots[s].filesize
    /\ UNCHANGED <<mem, destroy_task, to_erase, destroyer>>

LEMMA KeptFiles ==
  ASSUME FdBase, FilesKept
  PROVE  OpenIsOwn' /\ Destroying'
<1>1. \A s \in Slot : slots[s].fh \in Fd
  BY DEF FdBase, Base, OwnTypes, Members
<1>2. \A s \in Slot : Open(s)' <=> Open(s)
  BY DEF Open, FilesKept
<1>3. 0 \in Fd
  BY FdAssumption
<1>4. OpenIsOwn'
  BY <1>1, <1>2, <1>3 DEF FdBase, FdInv, OpenIsOwn, FilesKept
<1>5. Destroying'
  <2>1. /\ destroy_task \in Slot \cup {Null}
        /\ to_erase # Null => to_erase = destroy_task
    BY TaskInUse DEF FdBase
  <2> QED
    BY <2>1 DEF FdBase, FdInv, Destroying, FilesKept
<1> QED
  BY <1>4, <1>5

\* What the requests other than the one that moves know stays true.
LEMMA OthersWork ==
  ASSUME FdBase, NEW r \in Req, Moves(r),
         \A s \in Slot : slots'[s].filesize = slots[s].filesize,
         \A s \in Slot : s # req[r].slot \/ state[r] # "running" =>
            slots'[s].fh = slots[s].fh /\ slots'[s].file = slots[s].file,
         NEW x \in Req, x # r
  PROVE  Works(x)'
<1>1. req'[x] = req[x]
  BY DEF Moves
<1>2. Base /\ OrderInv /\ Works(x)
  BY DEF FdBase, FdInv, Working
<1>3. CASE req[x].stage \in InFile \cup {"open"}
  <2>1. state[x] = "running" /\ req[x].stage \notin Ready
    BY <1>2, <1>3 DEF Works, InFile, Ready
  <2>2. state'[x] = "running"
    BY <1>2, <2>1, RunningStays
  <2>3. req[x].slot \in Slot /\ core[x] = req[x].slot /\ core[r] = req[r].slot
    BY <1>2, <2>1, BusyInUse DEF Moves
  <2>4. req[x].slot # req[r].slot \/ state[r] # "running"
    BY <1>2, <2>1, <2>3, OneRuns
  <2>5. /\ slots'[req[x].slot].fh = slots[req[x].slot].fh
        /\ slots'[req[x].slot].file = slots[req[x].slot].file
        /\ slots'[req[x].slot].filesize = slots[req[x].slot].filesize
    BY <2>3, <2>4
  <2> QED
    BY <1>1, <1>2, <2>2, <2>5 DEF Works
<1>4. CASE req[x].stage \notin InFile \cup {"open"}
  <2>1. req[x].stage # "free" => req[x].slot \in Slot
    BY <1>2 DEF Base, Placed
  <2> QED
    BY <1>1, <1>2, <1>4, <2>1 DEF Works, InFile
<1> QED
  BY <1>3, <1>4

\* A file operation that goes on without opening or closing anything.
LEMMA KeptStep ==
  ASSUME FdBase, FilesKept, NEW r \in Req, Moves(r), UNCHANGED m, Works(r)'
  PROVE  FdInv'
<1> USE DEF FdBase
<1>1. OpenIsOwn' /\ Destroying'
  BY KeptFiles
<1>2. Working'
  <2>1. ASSUME NEW x \in Req PROVE Works(x)'
    BY <2>1, OthersWork DEF FilesKept
  <2> QED
    BY <2>1 DEF Working
<1>3. \A x \in Req : /\ req'[x].kind = req[x].kind /\ req'[x].slot = req[x].slot
                     /\ req[x].stage = "answer" => req'[x].stage = "answer"
  BY DEF Moves, Ready
<1>4. Starting'
  <2>1. \A x \in Req : req[x].kind = "start" => req[x].slot \in Slot
    BY StartInUse
  <2> QED
    BY <1>3, <2>1 DEF FdInv, Starting, FilesKept
<1>5. Unopened'
  <2>1. \A id \in Id : m[id] # Null => m[id] \in Slot
    BY EntryInUse
  <2>2. \A s : Ended(s) => Ended(s)'
    BY <1>3 DEF Ended
  <2> QED
    BY <2>1, <2>2 DEF FdInv, Unopened, FilesKept
<1> QED
  BY <1>1, <1>2, <1>4, <1>5 DEF FdInv

\* What an operation issues is on the descriptor of its slot, which is open
\* unless the slot's open failed.
LEMMA IssueWorks ==
  ASSUME FdBase, NEW r \in Req, state[r] = "running", req[r].stage \notin Ready,
         req[r].kind # "start", NEW stage \in {"write", "read"}, NEW off, NEW match,
         Issue(r, stage, off, match), UNCHANGED slots
  PROVE  Works(r)'
<1> USE DEF FdBase
<1> DEFINE s == req[r].slot
<1>1. m[req[r].id] = s /\ req[r].id \in Id /\ s \in Slot
  BY BusyInUse
<1>2. slots[s].fh # 0 \/ slots[s].file = Null
  BY <1>1, NotEnded, NullAssumption DEF FdInv, Unopened
<1>3. slots[s].filesize \in Size
  BY DEF FdInv, Working, Works, Ready
<1>4. /\ req'[r].stage = stage /\ req'[r].slot = s /\ req'[r].fd = slots[s].fh
      /\ state' = state
  <2>1. DOMAIN req[r] = {"kind", "id", "slot", "off", "fd", "match", "ok", "stage"}
    BY DEF Base, OwnTypes, Request
  <2> QED
    BY <2>1 DEF Issue, fifoVars, Base, OwnTypes
<1> HIDE DEF s
<1> QED
  BY <1>2, <1>3, <1>4 DEF Works, InFile

LEMMA FinishWorks ==
  ASSUME FdBase, NEW r \in Req, req[r].stage \notin Ready, NEW ok, Finish(r, ok),
         \A s \in Slot : slots'[s].filesize = slots[s].filesize
  PROVE  Works(r)'
<1>1. req'[r].stage = "answer" /\ req'[r].slot = req[r].slot
  <2>1. DOMAIN req[r] = {"kind", "id", "slot", "off", "fd", "match", "ok", "stage"}
    BY DEF FdBase, Base, OwnTypes, Request
  <2> QED
    BY <2>1 DEF Finish, FdBase, Base, OwnTypes
<1>2. req[r].slot \in Slot /\ slots[req[r].slot].filesize \in Size
  BY DEF FdBase, Base, Placed, FdInv, Working, Works, Ready
<1> QED
  BY <1>1, <1>2 DEF Works, InFile

LEMMA CloseWorks ==
  ASSUME FdBase, NEW r \in Req, req[r].stage = "read", req[r].fd # 0, NEW off, NEW match,
         Issue(r, "close", off, match), UNCHANGED slots
  PROVE  Works(r)'
<1> DEFINE s == req[r].slot
<1>1. /\ state[r] = "running" /\ req[r].fd = slots[s].fh /\ slots[s].filesize \in Size
  BY DEF FdBase, FdInv, Working, Works, InFile
<1>2. /\ req'[r].stage = "close" /\ req'[r].slot = s /\ req'[r].fd = slots[s].fh
      /\ state' = state
  <2>1. DOMAIN req[r] = {"kind", "id", "slot", "off", "fd", "match", "ok", "stage"}
    BY DEF FdBase, Base, OwnTypes, Request
  <2> QED
    BY <2>1 DEF Issue, fifoVars, FdBase, Base, OwnTypes
<1> HIDE DEF s
<1> QED
  BY <1>1, <1>2 DEF Works, InFile

-----------------------------------------------------------------------------
\* The steps of the requests' coroutines and of their callbacks.
LEMMA ResumeKeepsFd ==
  ASSUME FdBase, 0 \notin Size, NEW r \in Req, OpenFile(r) \/ WriteBlock(r) \/ CheckSize(r)
  PROVE  FdInv'
<1>1. Moves(r)
  BY CallbackMoves DEF FdBase, Base, OwnTypes
<1>2. UNCHANGED <<storageVars, slots, fileVars, destroyer>>
  BY DEF OpenFile, WriteBlock, CheckSize
<1>3. FilesKept /\ UNCHANGED m
  BY <1>2 DEF FilesKept, fileVars, storageVars
<1>4. req[r].stage \notin Ready /\ state[r] = "running"
  BY DEF OpenFile, WriteBlock, CheckSize, At, Ready
<1>5. Works(r)'
  <2>1. CASE OpenFile(r)
    <3>1. req'[r].stage = "open" /\ req'[r].slot = req[r].slot
      BY <2>1 DEF OpenFile, FdBase, Base, OwnTypes, Request
    <3>2. slots[req[r].slot].filesize \in Size /\ UNCHANGED <<slots, state>>
      BY <1>4, <2>1 DEF OpenFile, FdBase, FdInv, Working, Works, Ready, fifoVars
    <3> QED
      BY <1>4, <3>1, <3>2 DEF Works, InFile
  <2>2. CASE WriteBlock(r)
    BY <1>4, <2>2, IssueWorks DEF WriteBlock, At
  <2>3. CASE CheckSize(r)
    <3>1. CASE Finish(r, FALSE)
      BY <1>2, <1>4, <3>1, FinishWorks
    <3>2. CASE HashFrom(r, 0, req[r].match)
      <4>1. slots[req[r].slot].filesize \in Size
        BY <1>4 DEF FdBase, FdInv, Working, Works, Ready
      <4>2. 0 < slots[req[r].slot].filesize /\ ~(0 >= slots[req[r].slot].filesize)
        <5> DEFINE n == slots[req[r].slot].filesize
        <5>1. n \in Size
          BY <4>1
        <5> HIDE DEF n
        <5>2. n \in 0..Blocks /\ Blocks \in Nat /\ n # 0
          BY <5>1, SizeAssumption
        <5>3. 0 < n /\ ~(0 >= n)
          BY <5>2
        <5> QED
          BY <5>3 DEF n
      <4>3. Issue(r, "read", 0, req[r].match)
        BY <3>2, <4>2 DEF HashFrom
      <4> QED
        BY <1>2, <1>4, <2>3, <4>3, IssueWorks DEF CheckSize, At
    <3> QED
      BY <2>3, <3>1, <3>2 DEF CheckSize
  <2> QED
    BY <2>1, <2>2, <2>3
<1> QED
  BY <1>1, <1>3, <1>5, KeptStep

LEMMA ReadKeepsFd ==
  ASSUME FdBase, NEW r \in Req, ReadChunk(r)
  PROVE  FdInv'
<1>1. Moves(r)
  BY CallbackMoves DEF FdBase, Base, OwnTypes, Callback
<1>2. UNCHANGED <<storageVars, slots, fileVars, destroyer>>
  BY DEF ReadChunk
<1>3. FilesKept /\ UNCHANGED m
  BY <1>2 DEF FilesKept, fileVars, storageVars
<1>4. /\ req[r].stage = "read" /\ req[r].kind = "end" /\ state[r] = "running"
      /\ req[r].stage \notin Ready
  BY DEF ReadChunk, At, Ready
<1> DEFINE off == req[r].off + Chunk
           same == ChunkMatches(req[r].slot, FileOf(r), req[r].off)
           match == req[r].match /\ FileOf(r) # Stdin /\ same
<1>5. HashFrom(r, off, match)
  BY DEF ReadChunk
<1>6. match => req[r].fd # 0
  BY DEF FileOf, FdBase, FdInv, OpenIsOwn
<1> HIDE DEF off, match
<1>7. Works(r)'
  BY <1>2, <1>4, <1>5, <1>6, IssueWorks, CloseWorks, FinishWorks DEF HashFrom
<1> QED
  BY <1>1, <1>3, <1>7, KeptStep

LEMMA WroteKeepsFd ==
  ASSUME FdBase, NEW r \in Req, Wrote(r)
  PROVE  FdInv'
<1>1. Moves(r)
  BY CallbackMoves DEF FdBase, Base, OwnTypes, Callback
<1>2. \/ fds' = fds
      \/ fds' = [fds EXCEPT ![req[r].fd].pos = @ + 1]
  BY DEF Wrote
<1>3. slots' = [slots EXCEPT ![req[r].slot].written_bytes = @ + 1]
  BY DEF Wrote
<1>4. UNCHANGED <<storageVars, destroyer>>
  BY DEF Wrote
<1>5. \A k \in Fd : fds'[k].file = fds[k].file
  <2>1. \A k \in Fd : DOMAIN fds[k] = {"file", "pos"}
    BY DEF FdBase, Base, OwnTypes, FileTypeOK
  <2> QED
    BY <1>2, <2>1 DEF FdBase, Base, OwnTypes, FileTypeOK
<1>6. \A s \in Slot : /\ slots'[s].fh = slots[s].fh
                      /\ slots'[s].file = slots[s].file
                      /\ slots'[s].filesize = slots[s].filesize
  <2>1. \A s \in Slot :
          DOMAIN slots[s] = {"path", "filesize", "written_bytes", "fh", "file", "stored"}
    BY DEF FdBase, Base, OwnTypes, Members
  <2> QED
    BY <1>3, <2>1 DEF FdBase, Base, OwnTypes
<1>7. FilesKept /\ UNCHANGED m
  BY <1>4, <1>5, <1>6 DEF FilesKept, storageVars
<1>8. req[r].stage \notin Ready /\ Finish(r, TRUE)
  BY DEF Wrote, At, Ready
<1>9. Works(r)'
  BY <1>6, <1>8, FinishWorks
<1> QED
  BY <1>1, <1>7, <1>9, KeptStep

\* A running operation's descriptor is open on the file of its slot.
LEMMA WorksOnOpen ==
  ASSUME FdBase, NEW r \in Req, req[r].stage \in InFile, req[r].fd # 0
  PROVE  /\ Open(req[r].slot) /\ req[r].fd = slots[req[r].slot].fh
         /\ req[r].slot \in Slot /\ FileOf(r) = slots[req[r].slot].file
         /\ FileOf(r) \in Slot
<1>1. req[r].stage \notin Ready
  BY DEF InFile, Ready
<1>2. req[r].slot \in Slot /\ destroy_task # req[r].slot
  BY <1>1, BusyInUse DEF FdBase
<1>3. req[r].fd = slots[req[r].slot].fh
  BY DEF FdBase, FdInv, Working, Works
<1>4. Open(req[r].slot)
  BY <1>2, <1>3 DEF Open
<1> QED
  BY <1>2, <1>3, <1>4 DEF FdBase, FdInv, OpenIsOwn, FileOf

LEMMA FailedKeepsFd ==
  ASSUME FdBase, "close" \notin Faults, NEW r \in Req, Failed(r)
  PROVE  FdInv'
<1>1. Moves(r)
  BY CallbackMoves DEF FdBase, Base, OwnTypes, Callback
<1>2. req[r].stage # "close"
  <2> SUFFICES ASSUME req[r].stage = "close" PROVE FALSE
    OBVIOUS
  <2>1. req[r].fd # 0
    BY DEF FdBase, FdInv, Working, Works
  <2>2. FileOf(r) \in Slot
    BY <2>1, WorksOnOpen DEF InFile
  <2> QED
    BY <2>2, NullAssumption, StdinAssumption DEF Failed
<1>3. /\ UNCHANGED <<storageVars, slots, fds, destroyer>>
      /\ req[r].stage \notin Ready /\ Finish(r, FALSE)
  BY <1>2 DEF Failed, Ready
<1>4. FilesKept /\ UNCHANGED m
  BY <1>3 DEF FilesKept, storageVars
<1>5. Works(r)'
  BY <1>3, FinishWorks
<1> QED
  BY <1>1, <1>4, <1>5, KeptStep

\* The callback of an open: the descriptor was nobody's.
LEMMA OpenedKeepsFd ==
  ASSUME FdBase, NEW r \in Req, Opened(r)
  PROVE  FdInv'
<1>0. PICK s \in Slot : s = req[r].slot
  BY StartInUse DEF FdBase, Opened, At
<1>1. Moves(r)
  BY CallbackMoves DEF FdBase, Base, OwnTypes, Callback
<1>2. /\ req[r].kind = "start" /\ req[r].stage = "open" /\ state[r] = "running"
      /\ UNCHANGED <<storageVars, destroyer>> /\ Finish(r, TRUE)
  BY DEF Opened, At
<1>3. s \in Slot /\ mem[s] = "allocated" /\ destroy_task # s
  BY <1>0, <1>2, StartInUse DEF FdBase
<1>4. slots[s].fh = 0 /\ slots[s].file = Null
  BY <1>0, <1>2 DEF FdBase, FdInv, Starting
<1>5. PICK k \in Fd, f \in Slot :
        /\ fds[k] = Closed
        /\ fds' = [fds EXCEPT ![k] = [file |-> f, pos |-> 0]]
        /\ slots' = [slots EXCEPT ![s] = [@ EXCEPT !.fh = k, !.file = f]]
  <2> DEFINE p == slots[s].path
             g == IF dir[p] = Null THEN s ELSE dir[p]
  <2>1. p \in Path
    BY <1>0, <1>2 DEF FdBase, Base, Placed
  <2>2. g \in Slot
    BY <1>3, <2>1 DEF FdBase, Base, OwnTypes, FileTypeOK
  <2> QED
    BY <1>0, <2>2 DEF Opened, LowestFree
<1>6. k # 0 /\ fds[k].file = Null
  BY <1>5, StdinAssumption DEF Closed, FdBase, FdInv, OpenIsOwn
<1>7. /\ slots'[s].fh = k /\ slots'[s].file = f /\ slots'[s].filesize = slots[s].filesize
      /\ \A t \in Slot : t # s => slots'[t] = slots[t]
  <2>1. DOMAIN slots[s] = {"path", "filesize", "written_bytes", "fh", "file", "stored"}
    BY <1>3 DEF FdBase, Base, OwnTypes, Members
  <2> QED
    BY <1>3, <1>5, <2>1 DEF FdBase, Base, OwnTypes
<1>8. fds'[k].file = f /\ \A j \in Fd : j # k => fds'[j] = fds[j]
  BY <1>5 DEF FdBase, Base, OwnTypes, FileTypeOK
<1>9. UNCHANGED <<m, mem, destroy_task, to_erase>>
  BY <1>2 DEF storageVars
<1>10. /\ Open(s)' /\ ~Open(s)
       /\ \A t \in Slot : t # s => (Open(t)' <=> Open(t))
  BY <1>2, <1>3, <1>4, <1>6, <1>7, <1>9 DEF Open
<1>11. \A t \in Slot : Open(t) => slots[t].fh # k /\ slots[t].fh \in Fd
  BY <1>6, NullAssumption DEF FdBase, FdInv, OpenIsOwn, Base, OwnTypes, Members
<1>12. OpenIsOwn'
  <2>1. fds'[0].file = Stdin
    BY <1>6, <1>8, FdAssumption DEF FdBase, FdInv, OpenIsOwn
  <2>2. ASSUME NEW t \in Slot, Open(t)'
        PROVE  /\ fds'[slots'[t].fh].file = slots'[t].file
               /\ slots'[t].file \in Slot
               /\ mem'[t] = "allocated"
    BY <1>3, <1>7, <1>8, <1>9, <1>10, <1>11, <2>2 DEF FdBase, FdInv, OpenIsOwn
  <2>3. ASSUME NEW t \in Slot, NEW u \in Slot, Open(t)', Open(u)',
               slots'[t].fh = slots'[u].fh
        PROVE  t = u
    BY <1>7, <1>10, <1>11, <2>3 DEF FdBase, FdInv, OpenIsOwn
  <2>4. ASSUME NEW j \in Fd, fds'[j].file \notin {Null, Stdin}
        PROVE  \E t \in Slot : Open(t)' /\ slots'[t].fh = j
    <3>1. CASE j = k
      BY <1>3, <1>7, <1>10, <3>1
    <3>2. CASE j # k
      <4>1. PICK t \in Slot : Open(t) /\ slots[t].fh = j
        BY <1>8, <2>4, <3>2 DEF FdBase, FdInv, OpenIsOwn
      <4>2. t # s
        BY <1>10, <4>1
      <4> QED
        BY <1>7, <1>10, <4>1, <4>2
    <3> QED
      BY <3>1, <3>2
  <2> QED
    BY <2>1, <2>2, <2>3, <2>4 DEF OpenIsOwn
<1>13. Destroying'
  <2>1. /\ destroy_task \in Slot \cup {Null}
        /\ to_erase # Null => to_erase = destroy_task
    BY TaskInUse DEF FdBase
  <2> QED
    BY <1>2, <1>3, <1>7, <1>9, <2>1 DEF FdBase, FdInv, Destroying
<1>14. Working'
  <2>1. \A t \in Slot : slots'[t].filesize = slots[t].filesize
    BY <1>7
  <2>2. Works(r)'
    BY <1>2, <2>1, FinishWorks DEF Ready
  <2>3. ASSUME NEW x \in Req, x # r PROVE Works(x)'
    BY <1>0, <1>1, <1>2, <1>7, <2>1, <2>3, OthersWork
  <2> QED
    BY <2>2, <2>3 DEF Working
<1>15. /\ \A x \in Req : x # r => req'[x] = req[x]
       /\ req'[r].kind = "start" /\ req'[r].slot = s /\ req'[r].stage = "answer"
  BY <1>0, <1>1, <1>2 DEF Moves, Finish, FdBase, Base, OwnTypes, Request
<1>16. Starting'
  <2>1. \A x \in Req : req[x].kind = "start" => req[x].slot \in Slot
    BY StartInUse DEF FdBase
  <2>2. \A x \in Req : req[x].kind = "start" /\ x # r => req[x].slot # s
    BY <1>0, <1>2 DEF FdBase, FdInv, Starting
  <2> QED
    BY <1>0, <1>2, <1>7, <1>15, <2>1, <2>2 DEF FdBase, FdInv, Starting
<1>17. Unopened'
  <2>1. \A id \in Id : m[id] # Null => m[id] \in Slot
    BY EntryInUse DEF FdBase
  <2>2. \A t : Ended(t) => Ended(t)'
    BY <1>2, <1>15 DEF Ended
  <2> QED
    BY <1>6, <1>7, <1>9, <2>1, <2>2 DEF FdBase, FdInv, Unopened
<1> QED
  BY <1>12, <1>13, <1>14, <1>16, <1>17 DEF FdInv

\* The callback of a close: the descriptor was the slot's own, and no other
\* operation of the slot is running.
LEMMA ClosedKeepsFd ==
  ASSUME FdBase, NEW r \in Req, ClosedFile(r)
  PROVE  FdInv'
<1>0. PICK s \in Slot, k \in Fd : s = req[r].slot /\ k = req[r].fd
  <2>1. req[r].stage = "close"
    BY DEF ClosedFile, At
  <2>2. req[r].fd # 0
    BY <2>1 DEF FdBase, FdInv, Working, Works
  <2>3. req[r].slot \in Slot /\ slots[req[r].slot].fh \in Fd /\ req[r].fd = slots[req[r].slot].fh
    BY <2>1, <2>2, WorksOnOpen DEF InFile, FdBase, Base, OwnTypes, Members
  <2> QED
    BY <2>3
<1>1. Moves(r)
  BY CallbackMoves DEF FdBase, Base, OwnTypes, Callback
<1>2. /\ req[r].kind = "end" /\ req[r].stage = "close" /\ state[r] = "running"
      /\ UNCHANGED <<storageVars, destroyer>> /\ Finish(r, TRUE)
      /\ req[r].stage \notin Ready
  BY DEF ClosedFile, At, Ready
<1>3. /\ s \in Slot /\ destroy_task # s /\ m[req[r].id] = s
  BY <1>0, <1>2, BusyInUse DEF FdBase
<1>4. k # 0
  BY <1>0, <1>2 DEF FdBase, FdInv, Working, Works
<1>5. Open(s) /\ k = slots[s].fh
  BY <1>0, <1>2, <1>4, WorksOnOpen DEF InFile
<1>6. /\ fds' = [fds EXCEPT ![k] = Closed]
      /\ slots' = [slots EXCEPT ![s] = [@ EXCEPT !.fh = 0, !.stored = TRUE]]
  BY <1>0 DEF ClosedFile
<1>7. /\ slots'[s].fh = 0 /\ slots'[s].file = slots[s].file
      /\ slots'[s].filesize = slots[s].filesize
      /\ \A t \in Slot : t # s => slots'[t] = slots[t]
  <2>1. DOMAIN slots[s] = {"path", "filesize", "written_bytes", "fh", "file", "stored"}
    BY <1>3 DEF FdBase, Base, OwnTypes, Members
  <2> QED
    BY <1>3, <1>6, <2>1 DEF FdBase, Base, OwnTypes
<1>8. fds'[k].file = Null /\ \A j \in Fd : j # k => fds'[j] = fds[j]
  BY <1>5, <1>6 DEF FdBase, Base, OwnTypes, FileTypeOK, Closed
<1>9. UNCHANGED <<m, mem, destroy_task, to_erase>>
  BY <1>2 DEF storageVars
<1>10. /\ req'[r].kind = "end" /\ req'[r].stage = "answer" /\ req'[r].slot = s
       /\ \A x \in Req : x # r => req'[x] = req[x]
  BY <1>0, <1>1, <1>2 DEF Moves, Finish, FdBase, Base, OwnTypes, Request
<1>11. Working'
  <2>1. \A t \in Slot : slots'[t].filesize = slots[t].filesize
    BY <1>7
  <2>2. Works(r)'
    BY <1>2, <2>1, FinishWorks
  <2>3. ASSUME NEW x \in Req, x # r PROVE Works(x)'
    BY <1>0, <1>1, <1>2, <1>7, <2>1, <2>3, OthersWork
  <2> QED
    BY <2>2, <2>3 DEF Working
<1>12. /\ ~Open(s)'
       /\ \A t \in Slot : t # s => (Open(t)' <=> Open(t))
  BY <1>2, <1>3, <1>7, <1>9 DEF Open
<1>13. \A t \in Slot : Open(t) /\ t # s => slots[t].fh # k /\ slots[t].fh \in Fd
  BY <1>3, <1>5 DEF FdBase, FdInv, OpenIsOwn, Base, OwnTypes, Members
<1>14. OpenIsOwn'
  <2>1. fds'[0].file = Stdin
    BY <1>4, <1>8, FdAssumption DEF FdBase, FdInv, OpenIsOwn
  <2>2. ASSUME NEW t \in Slot, Open(t)'
        PROVE  /\ t # s /\ Open(t) /\ slots'[t] = slots[t]
               /\ fds'[slots'[t].fh].file = slots'[t].file
               /\ slots'[t].file \in Slot
               /\ mem'[t] = "allocated"
    BY <1>7, <1>8, <1>9, <1>12, <1>13, <2>2 DEF FdBase, FdInv, OpenIsOwn
  <2>3. ASSUME NEW t \in Slot, NEW u \in Slot, Open(t)', Open(u)',
               slots'[t].fh = slots'[u].fh
        PROVE  t = u
    BY <2>2, <2>3 DEF FdBase, FdInv, OpenIsOwn
  <2>4. ASSUME NEW j \in Fd, fds'[j].file \notin {Null, Stdin}
        PROVE  \E t \in Slot : Open(t)' /\ slots'[t].fh = j
    <3>1. PICK t \in Slot : Open(t) /\ slots[t].fh = j /\ j # k
      BY <1>8, <2>4 DEF FdBase, FdInv, OpenIsOwn
    <3>2. t # s
      BY <1>5, <3>1
    <3> QED
      BY <1>7, <1>12, <3>1, <3>2
  <2> QED
    BY <2>1, <2>2, <2>3, <2>4 DEF OpenIsOwn
<1>15. Destroying'
  <2>1. /\ destroy_task \in Slot \cup {Null}
        /\ to_erase # Null => to_erase = destroy_task
    BY TaskInUse DEF FdBase
  <2> QED
    BY <1>2, <1>3, <1>7, <1>9, <2>1 DEF FdBase, FdInv, Destroying
<1>16. Starting'
  <2>1. \A x \in Req : req[x].kind = "start" => req[x].slot \in Slot
    BY StartInUse DEF FdBase
  <2> QED
    BY <1>2, <1>7, <1>10, <2>1 DEF FdBase, FdInv, Starting
<1>17. Unopened'
  <2>1. \A id \in Id : m[id] # Null => m[id] \in Slot
    BY EntryInUse DEF FdBase
  <2>2. Ended(s)' /\ \A t : Ended(t) => Ended(t)'
    BY <1>2, <1>10 DEF Ended
  <2> QED
    BY <1>7, <1>9, <2>1, <2>2 DEF FdBase, FdInv, Unopened
<1> QED
  BY <1>11, <1>14, <1>15, <1>16, <1>17 DEF FdInv

-----------------------------------------------------------------------------
\* Requests of the hub and answers.

\* A request for an entry there is.
LEMMA HandleKeepsFd ==
  ASSUME FdBase, NEW r \in Req, NEW id \in Id, NEW kind \in {"data", "end"}, NEW off,
         NEW match, m[id] # Null, Handle(r, kind, id, m[id], off, match),
         UNCHANGED <<storageVars, slots>>
  PROVE  FdInv'
<1>0. PICK s \in Slot : s = m[id]
  BY EntryInUse DEF FdBase
<1>1. /\ \A x \in Req : x # r => req'[x] = req[x]
      /\ req[r].stage = "free" /\ req'[r].stage = "wrapped"
      /\ req'[r].kind = kind /\ req'[r].slot = s /\ FifoP!Start(s, r)
  BY <1>0, HandleSets DEF FdBase, Base, OwnTypes
<1>2. FilesKept /\ UNCHANGED m
  BY DEF FilesKept, Handle, fileVars, storageVars
<1>3. OpenIsOwn' /\ Destroying'
  BY <1>2, KeptFiles
<1>4. Working'
  <2>1. \A x \in Req : x # r => state'[x] = state[x]
    BY <1>1, StartPlaces DEF FdBase, Base
  <2>2. slots[s].filesize \in Size
    BY <1>0 DEF FdBase, FdInv, Unopened
  <2>3. Works(r)'
    BY <1>1, <2>2 DEF Works, InFile
  <2>4. ASSUME NEW x \in Req, x # r PROVE Works(x)'
    BY <1>1, <2>1, <2>4 DEF FdBase, FdInv, Working, Works
  <2> QED
    BY <2>3, <2>4 DEF Working
<1>5. Starting'
  BY <1>1 DEF FdBase, FdInv, Starting
<1>6. Unopened'
  <2>1. \A t : Ended(t) => Ended(t)'
    BY <1>1 DEF Ended
  <2> QED
    BY <1>2, <2>1 DEF FdBase, FdInv, Unopened
<1> QED
  BY <1>3, <1>4, <1>5, <1>6 DEF FdInv

\* A new transfer has a slot nobody knew.
LEMMA StartKeepsFd ==
  ASSUME FdBase, NEW r \in Req, NEW id \in Id, NEW s \in Slot, NEW p \in Path,
         NEW n \in Size, StartTransfer(r, id, s, p, n)
  PROVE  FdInv'
<1>1. /\ mem[s] = "unused" /\ m' = [m EXCEPT ![id] = s]
      /\ mem' = [mem EXCEPT ![s] = "allocated"]
      /\ UNCHANGED <<destroy_task, to_erase, destroyer, fds>>
      /\ Handle(r, "start", id, s, 0, FALSE)
      /\ slots' = [slots EXCEPT ![s] = [Unused EXCEPT !.path = p, !.filesize = n]]
  BY DEF StartTransfer, Transfers!Emplace, Transfers!Allocate, Handle, fileVars
<1>2. /\ \A x \in Req : x # r => req'[x] = req[x]
      /\ req[r].stage = "free" /\ req'[r].stage = "wrapped"
      /\ req'[r].kind = "start" /\ req'[r].slot = s /\ FifoP!Start(s, r)
  BY <1>1, HandleSets DEF FdBase, Base, OwnTypes
<1>3. /\ slots'[s].fh = 0 /\ slots'[s].file = Null /\ slots'[s].filesize = n
      /\ \A t \in Slot : t # s => slots'[t] = slots[t]
  BY <1>1 DEF Unused, FdBase, Base, OwnTypes
<1>4. \A t \in Slot : t # s => mem'[t] = mem[t]
  BY <1>1 DEF FdBase, Base, StorageP!AliveInv, StorageP!CountInv, StorageP!TypeOK
<1>5. destroy_task # s /\ to_erase # s /\ ~Open(s)
  BY <1>1, TaskInUse, NullAssumption DEF FdBase, FdInv, OpenIsOwn
<1>6. /\ ~Open(s)'
      /\ \A t \in Slot : t # s => (Open(t)' <=> Open(t))
  BY <1>1, <1>3 DEF Open
<1>7. OpenIsOwn'
  BY <1>1, <1>3, <1>4, <1>5, <1>6 DEF FdBase, FdInv, OpenIsOwn
<1>8. Destroying'
  <2>1. /\ destroy_task \in Slot \cup {Null}
        /\ to_erase # Null => to_erase = destroy_task
    BY TaskInUse DEF FdBase
  <2> QED
    BY <1>1, <1>3, <1>5, <2>1 DEF FdBase, FdInv, Destroying
<1>9. \A x \in Req : x # r /\ req[x].stage # "free" => req[x].slot \in Slot /\ req[x].slot # s
  BY <1>1 DEF FdBase, Base, Placed, OrderInv, SlotsAreOwn
<1>10. Working'
  <2>1. \A x \in Req : x # r => state'[x] = state[x]
    BY <1>2, StartPlaces DEF FdBase, Base
  <2>2. Works(r)'
    BY <1>2, <1>3 DEF Works, InFile
  <2>3. ASSUME NEW x \in Req, x # r PROVE Works(x)'
    <3>1. CASE req[x].stage = "free"
      BY <1>2, <2>3, <3>1 DEF Works, InFile
    <3>2. CASE req[x].stage # "free"
      BY <1>2, <1>3, <1>9, <2>1, <2>3, <3>2 DEF FdBase, FdInv, Working, Works
    <3> QED
      BY <3>1, <3>2
  <2> QED
    BY <2>2, <2>3 DEF Working
<1>11. \A x \in Req : req[x].stage = "free" => req[x].kind = "none"
  BY DEF FdBase, OrderInv, SlotsAreOwn
<1>12. Starting'
  BY <1>2, <1>3, <1>9, <1>11 DEF FdBase, FdInv, Starting
<1>13. Unopened'
  <2>1. \A i \in Id : i # id => m'[i] = m[i] /\ (m[i] # Null => m[i] \in Slot /\ m[i] # s)
    <3>1. \A i \in Id : m[i] # Null => m[i] \in Slot /\ mem[m[i]] = "allocated"
      BY EntryInUse DEF FdBase
    <3> QED
      BY <1>1, <3>1 DEF FdBase, Base, StorageP!AliveInv, StorageP!CountInv, StorageP!TypeOK
  <2>2. m'[id] = s
    BY <1>1 DEF FdBase, Base, StorageP!AliveInv, StorageP!CountInv, StorageP!TypeOK
  <2>3. \A t : Ended(t) => Ended(t)'
    BY <1>2 DEF Ended
  <2> QED
    BY <1>3, <2>1, <2>2, <2>3 DEF FdBase, FdInv, Unopened
<1> QED
  BY <1>7, <1>8, <1>10, <1>12, <1>13 DEF FdInv

LEMMA AnswerKeepsFd ==
  ASSUME FdBase, NEW r \in Req, Answer(r)
  PROVE  FdInv'
<1>1. /\ req[r].stage = "answer" /\ req' = [req EXCEPT ![r] = Free]
      /\ UNCHANGED <<fifoVars, slots, fileVars, destroyer>>
  BY DEF Answer
<1>2. UNCHANGED <<mem, destroy_task, to_erase>>
  BY DEF Answer, storageVars, Transfers!DropPtr, Transfers!Erase
<1>3. FilesKept
  BY <1>1, <1>2 DEF FilesKept, fileVars
<1>4. /\ req'[r] = Free
      /\ \A x \in Req : x # r => req'[x] = req[x]
  BY <1>1 DEF FdBase, Base, OwnTypes
<1>5. OpenIsOwn' /\ Destroying'
  BY <1>3, KeptFiles
<1>6. Working'
  BY <1>1, <1>4 DEF FdBase, FdInv, Working, Works, Free, InFile, fifoVars
<1>7. Starting'
  BY <1>1, <1>4 DEF FdBase, FdInv, Starting, Free
<1>8. \A i \in Id : m'[i] = m[i] \/ m'[i] = Null
  BY DEF Answer, Transfers!DropPtr, Transfers!Erase, StorageP!TypeOK, StorageP!CountInv,
     StorageP!AliveInv, FdBase, Base, storageVars
<1>9. req[r].kind = "end" => \A i \in Id : m'[i] # Null => m'[i] # req[r].slot
  <2> SUFFICES ASSUME req[r].kind = "end", NEW i \in Id, m'[i] # Null, m'[i] = req[r].slot
               PROVE  FALSE
    OBVIOUS
  <2>1. /\ req[r].id \in Id /\ m[req[r].id] = req[r].slot
        /\ m' = [m EXCEPT ![req[r].id] = Null]
    BY <1>1 DEF Answer, Transfers!Erase, FdBase, Base, Placed
  <2>2. m[i] = m'[i] /\ i # req[r].id
    BY <1>8, <2>1 DEF FdBase, Base, StorageP!AliveInv, StorageP!CountInv, StorageP!TypeOK
  <2> QED
    BY <2>1, <2>2 DEF FdBase, OrderInv, SlotsAreOwn
<1>10. Unopened'
  <2>1. ASSUME NEW t, Ended(t), req[r].kind = "end" => t # req[r].slot PROVE Ended(t)'
    BY <1>4, <2>1 DEF Ended
  <2>2. ASSUME NEW i \in Id, m'[i] # Null
        PROVE  /\ slots'[m'[i]].filesize \in Size
               /\ ~Ended(m[i])' => slots'[m'[i]].fh # 0 \/ slots'[m'[i]].file = Null
    <3>1. m'[i] = m[i]
      BY <1>8, <2>2
    <3>2. PICK t \in Slot : t = m[i]
      BY <2>2, <3>1, EntryInUse DEF FdBase
    <3>3. Ended(t) => Ended(t)'
      BY <1>9, <2>1, <2>2, <3>1, <3>2
    <3>4. /\ slots[t].filesize \in Size
          /\ ~Ended(t) => slots[t].fh # 0 \/ slots[t].file = Null
      BY <2>2, <3>1, <3>2 DEF FdBase, FdInv, Unopened
    <3>5. ~Ended(t)' => slots'[t].fh # 0 \/ slots'[t].file = Null
      BY <1>1, <3>3, <3>4
    <3>6. m'[i] = t
      BY <3>1, <3>2
    <3> QED
      BY <1>1, <3>4, <3>5, <3>6
  <2> QED
    BY <2>2 DEF Unopened
<1> QED
  BY <1>5, <1>6, <1>7, <1>10 DEF FdInv

-----------------------------------------------------------------------------
\* The tick and destroy().
LEMMA TickKeepsFd ==
  ASSUME FdBase, Tick
  PROVE  FdInv'
<1>1. /\ UNCHANGED <<fifoVars, req, slots, fileVars, destroyer, m>>
      /\ to_erase' = Null
      /\ mem' = IF to_erase # Null THEN [mem EXCEPT ![to_erase] = "freed"] ELSE mem
  BY DEF Tick, Transfers!Tick, Transfers!TickErase
<1>2. /\ destroy_task \in Slot \cup {Null}
      /\ to_erase # Null => to_erase = destroy_task
  BY TaskInUse DEF FdBase
<1>3. destroyer.step # "idle" =>
        destroy_task # Null /\ to_erase = Null /\ destroy_task' = destroy_task
  BY DEF FdBase, FdInv, Destroying, Tick, Transfers!Tick, Transfers!TickStart,
     Transfers!TickSignal, Transfers!TickRest, Transfers!TaskAfterErase
<1>4. \A s \in Slot : Open(s)' <=> Open(s)
  BY <1>1, <1>3 DEF Open
<1>5. \A s \in Slot : Open(s) => mem'[s] = mem[s]
  BY <1>1, <1>2 DEF FdBase, FdInv, Destroying, Open, Base, StorageP!AliveInv,
     StorageP!CountInv, StorageP!TypeOK
<1>6. OpenIsOwn'
  BY <1>1, <1>4, <1>5 DEF FdBase, FdInv, OpenIsOwn, fileVars
<1>7. Destroying'
  BY <1>1, <1>3 DEF FdBase, FdInv, Destroying
<1>8. Working' /\ Starting'
  BY <1>1 DEF FdBase, FdInv, Working, Works, Starting, fifoVars
<1>9. Unopened'
  BY <1>1 DEF FdBase, FdInv, Unopened, Ended
<1> QED
  BY <1>6, <1>7, <1>8, <1>9 DEF FdInv

LEMMA DestroyBeginKeepsFd ==
  ASSUME FdBase, DestroyBegin
  PROVE  FdInv'
<1>1. /\ UNCHANGED <<fifoVars, req, slots, fileVars, m, mem, destroy_task>>
      /\ destroy_task # Null /\ to_erase = Null /\ destroyer = Idle
      /\ \/ /\ slots[destroy_task].fh = 0 /\ to_erase' = destroy_task
            /\ UNCHANGED destroyer
         \/ /\ slots[destroy_task].fh # 0 /\ UNCHANGED to_erase
            /\ destroyer' = [step |-> "close", fd |-> slots[destroy_task].fh]
  BY DEF DestroyBegin, Transfers!DestroyFinish, storageVars
<1>2. \A s \in Slot : Open(s)' <=> Open(s)
  BY <1>1 DEF Open, Idle
<1>3. OpenIsOwn'
  BY <1>1, <1>2 DEF FdBase, FdInv, OpenIsOwn, fileVars
<1>4. Destroying'
  BY <1>1 DEF FdBase, FdInv, Destroying, Idle
<1>5. Working' /\ Starting'
  BY <1>1 DEF FdBase, FdInv, Working, Works, Starting, fifoVars
<1>6. Unopened'
  BY <1>1 DEF FdBase, FdInv, Unopened, Ended
<1> QED
  BY <1>3, <1>4, <1>5, <1>6 DEF FdInv

LEMMA DestroyClosedKeepsFd ==
  ASSUME FdBase, "close" \notin Faults, DestroyClosed
  PROVE  FdInv'
<1>0. destroyer.step = "close" /\ destroyer.fd = slots[destroy_task].fh
  BY DEF DestroyClosed, FdBase, FdInv, Destroying
<1>1. PICK s \in Slot, k \in Fd : s = destroy_task /\ k = destroyer.fd
  <2>1. destroy_task \in Slot
    BY <1>0, TaskInUse DEF FdBase, FdInv, Destroying
  <2> QED
    BY <1>0, <2>1 DEF FdBase, Base, OwnTypes, Members
<1>2. k = slots[s].fh /\ k # 0 /\ Open(s)
  BY <1>0, <1>1 DEF FdBase, FdInv, Destroying, Open
<1>3. fds[k] # Closed
  BY <1>2, NullAssumption DEF Closed, FdBase, FdInv, OpenIsOwn
<1>4. /\ fds' = [fds EXCEPT ![k] = Closed]
      /\ destroyer' = [step |-> "unlink", fd |-> Null]
      /\ UNCHANGED <<storageVars, fifoVars, req, slots>>
  BY <1>1, <1>3 DEF DestroyClosed
<1>5. fds'[k].file = Null /\ \A j \in Fd : j # k => fds'[j] = fds[j]
  BY <1>4 DEF Closed, FdBase, Base, OwnTypes, FileTypeOK
<1>6. UNCHANGED <<m, mem, destroy_task, to_erase>>
  BY <1>4 DEF storageVars
<1>7. /\ ~Open(s)'
      /\ \A t \in Slot : t # s => (Open(t)' <=> Open(t))
  BY <1>0, <1>1, <1>4, <1>6 DEF Open
<1>8. \A t \in Slot : Open(t) /\ t # s => slots[t].fh # k /\ slots[t].fh \in Fd
  BY <1>2 DEF FdBase, FdInv, OpenIsOwn, Base, OwnTypes, Members
<1>9. OpenIsOwn'
  <2>1. fds'[0].file = Stdin
    BY <1>2, <1>5, FdAssumption DEF FdBase, FdInv, OpenIsOwn
  <2>2. ASSUME NEW t \in Slot, Open(t)'
        PROVE  /\ t # s /\ Open(t)
               /\ fds'[slots'[t].fh].file = slots'[t].file
               /\ slots'[t].file \in Slot
               /\ mem'[t] = "allocated"
    BY <1>4, <1>5, <1>6, <1>7, <1>8, <2>2 DEF FdBase, FdInv, OpenIsOwn
  <2>3. ASSUME NEW t \in Slot, NEW u \in Slot, Open(t)', Open(u)',
               slots'[t].fh = slots'[u].fh
        PROVE  t = u
    BY <1>4, <2>2, <2>3 DEF FdBase, FdInv, OpenIsOwn
  <2>4. ASSUME NEW j \in Fd, fds'[j].file \notin {Null, Stdin}
        PROVE  \E t \in Slot : Open(t)' /\ slots'[t].fh = j
    <3>1. PICK t \in Slot : Open(t) /\ slots[t].fh = j /\ j # k
      BY <1>5, <2>4 DEF FdBase, FdInv, OpenIsOwn
    <3>2. t # s
      BY <1>2, <3>1
    <3> QED
      BY <1>4, <1>7, <3>1, <3>2
  <2> QED
    BY <2>1, <2>2, <2>3, <2>4 DEF OpenIsOwn
<1>10. Destroying'
  BY <1>0, <1>4, <1>6 DEF FdBase, FdInv, Destroying
<1>11. Working' /\ Starting'
  BY <1>4 DEF FdBase, FdInv, Working, Works, Starting, fifoVars
<1>12. Unopened'
  BY <1>4, <1>6 DEF FdBase, FdInv, Unopened, Ended
<1> QED
  BY <1>9, <1>10, <1>11, <1>12 DEF FdInv

LEMMA DestroyUnlinkedKeepsFd ==
  ASSUME FdBase, DestroyUnlinked
  PROVE  FdInv'
<1>0. destroyer.step = "unlink" /\ destroyer' = Idle
  BY DEF DestroyUnlinked
<1>1. PICK s \in Slot : s = destroy_task
  BY <1>0, TaskInUse DEF FdBase, FdInv, Destroying
<1>2. /\ slots' = [slots EXCEPT ![s].fh = 0] /\ to_erase' = s
      /\ UNCHANGED <<fifoVars, req, fds, m, mem, destroy_task>>
  BY <1>1 DEF DestroyUnlinked, Transfers!DestroyFinish
<1>3. /\ slots'[s].fh = 0
      /\ \A t \in Slot : t # s => slots'[t] = slots[t]
      /\ \A t \in Slot : slots'[t].filesize = slots[t].filesize
  <2>1. \A t \in Slot :
          DOMAIN slots[t] = {"path", "filesize", "written_bytes", "fh", "file", "stored"}
    BY DEF FdBase, Base, OwnTypes, Members
  <2> QED
    BY <1>2, <2>1 DEF FdBase, Base, OwnTypes
<1>4. \A t \in Slot : Open(t)' <=> Open(t)
  BY <1>0, <1>1, <1>2, <1>3 DEF Open, Idle
<1>5. ~Open(s)
  BY <1>0, <1>1 DEF Open
<1>6. OpenIsOwn'
  BY <1>2, <1>3, <1>4, <1>5 DEF FdBase, FdInv, OpenIsOwn
<1>7. Destroying'
  BY <1>0, <1>2, <1>3 DEF Destroying, Idle
<1>8. Working'
  <2> SUFFICES ASSUME NEW x \in Req PROVE Works(x)'
    BY DEF Working
  <2>1. req[x].stage \in InFile => req[x].slot \in Slot /\ req[x].slot # s
    BY <1>1, BusyInUse DEF InFile, Ready, FdBase
  <2>2. req[x].stage # "free" => req[x].slot \in Slot
    BY DEF FdBase, Base, Placed
  <2> QED
    BY <1>2, <1>3, <2>1, <2>2 DEF FdBase, FdInv, Working, Works, fifoVars
<1>9. Starting'
  <2>1. \A x \in Req : req[x].kind = "start" => req[x].slot \in Slot /\ req[x].slot # s
    BY <1>1, StartInUse DEF FdBase
  <2> QED
    BY <1>2, <1>3, <2>1 DEF FdBase, FdInv, Starting
<1>10. Unopened'
  <2>1. \A id \in Id : m[id] # Null => m[id] \in Slot /\ m[id] # s
    BY <1>1, EntryInUse DEF FdBase
  <2> QED
    BY <1>2, <1>3, <2>1 DEF FdBase, FdInv, Unopened, Ended
<1> QED
  BY <1>6, <1>7, <1>8, <1>9, <1>10 DEF FdInv

-----------------------------------------------------------------------------
LEMMA FdStep ==
  ASSUME "close" \notin Faults, 0 \notin Size
  PROVE  FdBase /\ [Next]_vars => FdInv'
<1> SUFFICES ASSUME FdBase, [Next]_vars PROVE FdInv'
  OBVIOUS
<1>1. ASSUME Requests PROVE FdInv'
  BY <1>1, StartKeepsFd, HandleKeepsFd DEF Requests, TransferData, EndTransfer
<1>2. ASSUME NEW r \in Req, Resume(r) PROVE FdInv'
  BY <1>2, ResumeKeepsFd, AnswerKeepsFd DEF Resume
<1>3. ASSUME NEW r \in Req, Callback(r) PROVE FdInv'
  BY <1>3, OpenedKeepsFd, WroteKeepsFd, ReadKeepsFd, ClosedKeepsFd, FailedKeepsFd
  DEF Callback
<1>4. ASSUME Tick \/ Destroy PROVE FdInv'
  BY <1>4, TickKeepsFd, DestroyBeginKeepsFd, DestroyClosedKeepsFd, DestroyUnlinkedKeepsFd
  DEF Destroy
<1>5. CASE UNCHANGED vars
  BY <1>5 DEF vars, storageVars, fifoVars, fileVars, FdBase, FdInv, OpenIsOwn, Open,
     Destroying, Working, Works, Starting, Unopened, Ended
<1> QED
  BY <1>1, <1>2, <1>3, <1>4, <1>5 DEF Next

LEMMA FdInvariant ==
  ASSUME "end_is_last" \in Hub, "close" \notin Faults, 0 \notin Size
  PROVE  Spec => []FdBase
<1>1. Init => FdBase
  BY BaseInit, OrderInit, FdInit DEF FdBase
<1>2. FdBase /\ [Next]_vars => FdBase'
  BY BaseStep, OrderStep, FdStep DEF FdBase
<1> QED
  BY <1>1, <1>2, PTL DEF Spec

\* However requests overlap with the end and the destruction of their slot and
\* with other slots, an operation works on the descriptor that its own slot has
\* open (fs_transfer.hpp:33, 48-82, 96-105).
THEOREM OperationsUseTheirOwn ==
  ASSUME "end_is_last" \in Hub, "close" \notin Faults, 0 \notin Size
  PROVE  Spec => []DescriptorsAreOwn
<1>1. FdBase => DescriptorsAreOwn
  <2> SUFFICES ASSUME FdBase PROVE DescriptorsAreOwn
    OBVIOUS
  <2>1. ASSUME NEW r \in Req, req[r].stage \in InFile
        PROVE  /\ req[r].fd = slots[req[r].slot].fh
               /\ req[r].fd # 0 =>
                    FileOf(r) # Null /\ FileOf(r) = slots[req[r].slot].file
               /\ req[r].fd = 0 => slots[req[r].slot].file = Null
    BY <2>1, WorksOnOpen, NullAssumption DEF FdBase, FdInv, Working, Works
  <2>2. ASSUME destroyer.step = "close"
        PROVE  fds[destroyer.fd].file = slots[destroy_task].file
    <3>1. destroy_task \in Slot /\ Open(destroy_task)
      BY <2>2, TaskInUse DEF FdBase, FdInv, Destroying, Open
    <3> QED
      BY <2>2, <3>1 DEF FdBase, FdInv, Destroying, OpenIsOwn
  <2> QED
    BY <2>1, <2>2 DEF DescriptorsAreOwn
<1> QED
  BY <1>1, FdInvariant, PTL

\* No descriptor leaks on any path, whatever else fails
\* (fs_transfer.hpp:79-81, 96-105).
THEOREM NoneLeaks ==
  ASSUME "end_is_last" \in Hub, "close" \notin Faults, 0 \notin Size
  PROVE  Spec => []NoDescriptorLeaks
<1>1. FdBase => NoDescriptorLeaks
  BY DEF FdBase, FdInv, OpenIsOwn, NoDescriptorLeaks
<1> QED
  BY <1>1, FdInvariant, PTL

-----------------------------------------------------------------------------
\* The files.  A file is named by the slot that created it, so its names, and
\* the slots that opened it, are of that slot's path.
FileNames ==
    /\ \A p \in Path : dir[p] # Null =>
         /\ mem[dir[p]] # "unused"
         /\ slots[dir[p]].path = p /\ slots[dir[p]].file = dir[p]
    /\ \A s \in Slot : slots[s].file # Null =>
         /\ mem[s] # "unused" /\ mem[slots[s].file] # "unused"
         /\ slots[s].path \in Path
         /\ slots[slots[s].file].path = slots[s].path
         /\ slots[slots[s].file].file = slots[s].file
    /\ \A s \in Slot : slots[s].stored => slots[s].fh = 0 /\ slots[s].file # Null
    /\ \A s \in Slot : slots[s].fh # 0 => slots[s].file # Null

\* What destroy() has closed for good, or what was never stored, has no name.
FailedGone ==
    \A s \in Slot : slots[s].file # Null /\ ~slots[s].stored /\ slots[s].fh = 0 =>
        dir[slots[s].path] # slots[s].file

\* A path is of one transfer that is not stored yet, which has named its file.
OneUpload ==
    /\ \A s, t \in Slot :
         /\ mem[s] = "allocated" /\ mem[t] = "allocated" /\ s # t
         /\ slots[s].path = slots[t].path
         => slots[s].stored \/ slots[t].stored
    /\ \A s \in Slot : slots[s].fh # 0 => dir[slots[s].path] = slots[s].file

\* What the loop of end() has read is the slot's content still.
SoFar(r) ==
    /\ req[r].stage = "close" => req[r].match
    /\ (req[r].stage \in {"read", "close"} /\ req[r].match /\ req[r].fd # 0) =>
         \A b \in Block :
           b < slots[req[r].slot].filesize /\ (req[r].stage = "close" \/ b < req[r].off)
             => content[slots[req[r].slot].file][b] = req[r].slot

WholeSoFar == \A r \in Req : SoFar(r)

\* A slot with a descriptor is allocated.
LEMMA OpenAllocated ==
  ASSUME FdBase, NEW s \in Slot, slots[s].fh # 0
  PROVE  mem[s] = "allocated"
BY TaskInUse DEF FdBase, FdInv, OpenIsOwn, Open, Destroying

\* Five kinds of steps, as far as files are concerned.
FilesStay ==
    /\ \A s \in Slot : /\ slots'[s].path = slots[s].path
                       /\ slots'[s].file = slots[s].file
                       /\ slots'[s].fh = slots[s].fh
                       /\ slots'[s].stored = slots[s].stored
    /\ \A s \in Slot : /\ mem'[s] = "unused" <=> mem[s] = "unused"
                       /\ mem'[s] = "allocated" => mem[s] = "allocated"
    /\ UNCHANGED dir

NewFile(s, p) ==
    /\ HubUploads(p)
    /\ mem[s] = "unused" /\ mem' = [mem EXCEPT ![s] = "allocated"]
    /\ slots'[s].path = p /\ slots'[s].file = Null
    /\ slots'[s].fh = 0 /\ ~slots'[s].stored
    /\ \A t \in Slot : t # s => slots'[t] = slots[t]
    /\ UNCHANGED dir

OpenedFile(s, f) ==
    /\ slots[s].fh = 0 /\ slots[s].file = Null
    /\ mem[s] = "allocated" /\ slots[s].path \in Path
    /\ f = IF dir[slots[s].path] = Null THEN s ELSE dir[slots[s].path]
    /\ slots'[s].fh # 0 /\ slots'[s].file = f
    /\ slots'[s].path = slots[s].path /\ slots'[s].stored = slots[s].stored
    /\ \A t \in Slot : t # s => slots'[t] = slots[t]
    /\ dir' = [dir EXCEPT ![slots[s].path] = f]
    /\ UNCHANGED mem

StoredFile(s) ==
    /\ slots[s].fh # 0 /\ slots[s].file # Null
    /\ slots'[s].fh = 0 /\ slots'[s].stored
    /\ slots'[s].path = slots[s].path /\ slots'[s].file = slots[s].file
    /\ \A t \in Slot : t # s => slots'[t] = slots[t]
    /\ UNCHANGED <<dir, mem>>

UnlinkedFile(s) ==
    /\ slots[s].fh # 0
    /\ slots'[s].fh = 0
    /\ slots'[s].path = slots[s].path /\ slots'[s].file = slots[s].file
    /\ slots'[s].stored = slots[s].stored
    /\ \A t \in Slot : t # s => slots'[t] = slots[t]
    /\ \/ dir' = [dir EXCEPT ![slots[s].path] = Null]
       \/ "unlink" \in Faults /\ UNCHANGED dir
    /\ UNCHANGED mem

LEMMA FilesCases ==
  ASSUME FdBase, [Next]_vars
  PROVE  \/ FilesStay
         \/ \E s \in Slot, p \in Path : NewFile(s, p)
         \/ \E s \in Slot, f \in Slot : OpenedFile(s, f)
         \/ \E s \in Slot : StoredFile(s)
         \/ \E s \in Slot : UnlinkedFile(s)
<1> DEFINE Cases == \/ FilesStay
                    \/ \E s \in Slot, p \in Path : NewFile(s, p)
                    \/ \E s \in Slot, f \in Slot : OpenedFile(s, f)
                    \/ \E s \in Slot : StoredFile(s)
                    \/ \E s \in Slot : UnlinkedFile(s)
<1>0. /\ \A s \in Slot :
           DOMAIN slots[s] = {"path", "filesize", "written_bytes", "fh", "file", "stored"}
      /\ DOMAIN slots = Slot
      /\ mem \in [Slot -> {"unused", "allocated", "freed"}]
  BY DEF FdBase, Base, OwnTypes, Members, StorageP!AliveInv, StorageP!CountInv,
     StorageP!TypeOK
<1>1. UNCHANGED <<slots, mem, dir>> => FilesStay
  BY DEF FilesStay
<1>2. ASSUME NEW r \in Req, NEW id \in Id, NEW s \in Slot, NEW p \in Path, NEW n \in Size,
             StartTransfer(r, id, s, p, n)
      PROVE  NewFile(s, p)
  <2>1. /\ mem[s] = "unused" /\ mem' = [mem EXCEPT ![s] = "allocated"]
        /\ slots' = [slots EXCEPT ![s] = [Unused EXCEPT !.path = p, !.filesize = n]]
        /\ HubUploads(p) /\ UNCHANGED dir
    BY <1>2 DEF StartTransfer, Transfers!Emplace, Transfers!Allocate, Handle, fileVars
  <2> QED
    BY <1>0, <2>1 DEF NewFile, Unused
<1>3. CASE Requests
  <2>1. CASE \E r \in Req, id \in Id, s \in Slot, p \in Path, n \in Size :
               StartTransfer(r, id, s, p, n)
    BY <1>2, <2>1
  <2>2. CASE \/ \E r \in Req, id \in Id, off \in Offset : TransferData(r, id, off)
             \/ \E r \in Req, id \in Id, right \in BOOLEAN : EndTransfer(r, id, right)
    BY <1>1, <2>2 DEF TransferData, EndTransfer, Handle, fileVars, storageVars
  <2> QED
    BY <1>3, <2>1, <2>2 DEF Requests
<1>4. ASSUME NEW r \in Req, Resume(r) PROVE FilesStay
  BY <1>1, <1>4 DEF Resume, OpenFile, WriteBlock, CheckSize, Answer, storageVars, fileVars,
     Transfers!DropPtr, Transfers!Erase
<1>5. ASSUME NEW r \in Req, Opened(r) PROVE Cases
  <2>1. PICK s \in Slot : s = req[r].slot
    BY <1>5, StartInUse DEF FdBase, Opened, At
  <2>2. /\ mem[s] = "allocated" /\ slots[s].path \in Path
        /\ slots[s].fh = 0 /\ slots[s].file = Null /\ UNCHANGED mem
    BY <1>5, <2>1, StartInUse DEF FdBase, FdInv, Starting, Base, Placed, Opened, At, storageVars
  <2>3. PICK f : f = IF dir[slots[s].path] = Null THEN s ELSE dir[slots[s].path]
    OBVIOUS
  <2>4. f \in Slot
    BY <2>2, <2>3 DEF FdBase, Base, OwnTypes, FileTypeOK
  <2>5. PICK k \in Fd :
          /\ fds[k] = Closed
          /\ slots' = [slots EXCEPT ![s] = [@ EXCEPT !.fh = k, !.file = f]]
          /\ dir' = [dir EXCEPT ![slots[s].path] = f]
    BY <1>5, <2>1, <2>3 DEF Opened, LowestFree
  <2>6. k # 0
    BY <2>5, StdinAssumption DEF Closed, FdBase, FdInv, OpenIsOwn
  <2>7. OpenedFile(s, f)
    BY <1>0, <2>2, <2>3, <2>5, <2>6 DEF OpenedFile
  <2> QED
    BY <2>4, <2>7
<1>6. ASSUME NEW r \in Req, Wrote(r) PROVE FilesStay
  <2>1. /\ slots' = [slots EXCEPT ![req[r].slot].written_bytes = @ + 1]
        /\ UNCHANGED <<mem, dir>>
    BY <1>6 DEF Wrote, storageVars
  <2> QED
    BY <1>0, <2>1 DEF FilesStay
<1>7. ASSUME NEW r \in Req, ReadChunk(r) \/ Failed(r) PROVE FilesStay
  BY <1>1, <1>7 DEF ReadChunk, Failed, storageVars, fileVars
<1>8. ASSUME NEW r \in Req, ClosedFile(r) PROVE Cases
  <2>1. req[r].stage = "close" /\ req[r].stage \in InFile
    BY <1>8 DEF ClosedFile, At, InFile
  <2>2. req[r].fd # 0
    BY <2>1 DEF FdBase, FdInv, Working, Works
  <2>3. PICK s \in Slot : s = req[r].slot /\ slots[s].fh # 0 /\ slots[s].file # Null
    BY <2>1, <2>2, WorksOnOpen, NullAssumption DEF Open
  <2>4. /\ slots' = [slots EXCEPT ![s] = [@ EXCEPT !.fh = 0, !.stored = TRUE]]
        /\ UNCHANGED <<mem, dir>>
    BY <1>8, <2>3 DEF ClosedFile, storageVars
  <2>5. StoredFile(s)
    BY <1>0, <2>3, <2>4 DEF StoredFile
  <2> QED
    BY <2>5
<1>9. CASE Tick
  <2>1. /\ UNCHANGED <<slots, dir>>
        /\ mem' = IF to_erase # Null THEN [mem EXCEPT ![to_erase] = "freed"] ELSE mem
    BY <1>9 DEF Tick, Transfers!Tick, Transfers!TickErase, fileVars
  <2>2. to_erase # Null => mem[to_erase] = "allocated"
    BY TaskInUse DEF FdBase
  <2> QED
    BY <1>0, <2>1, <2>2 DEF FilesStay
<1>10. CASE DestroyBegin \/ DestroyClosed
  BY <1>1, <1>10 DEF DestroyBegin, DestroyClosed, Transfers!DestroyFinish, storageVars, fileVars
<1>11. CASE DestroyUnlinked
  <2>1. PICK s \in Slot : s = destroy_task /\ slots[s].fh # 0
    BY <1>11, TaskInUse DEF FdBase, FdInv, Destroying, DestroyUnlinked
  <2>2. /\ slots' = [slots EXCEPT ![s].fh = 0]
        /\ \/ dir' = [dir EXCEPT ![slots[s].path] = Null]
           \/ "unlink" \in Faults /\ UNCHANGED dir
        /\ UNCHANGED mem
    BY <1>11, <2>1 DEF DestroyUnlinked, Transfers!DestroyFinish
  <2>3. UnlinkedFile(s)
    BY <1>0, <2>1, <2>2 DEF UnlinkedFile
  <2> QED
    BY <2>3
<1>12. CASE UNCHANGED vars
  BY <1>1, <1>12 DEF vars, storageVars, fileVars
<1> QED
  BY <1>3, <1>4, <1>5, <1>6, <1>7, <1>8, <1>9, <1>10, <1>11, <1>12
  DEF Next, Callback, Destroy

LEMMA NamesStep == FdBase /\ FileNames /\ [Next]_vars => FileNames'
<1> SUFFICES ASSUME FdBase, FileNames, [Next]_vars PROVE FileNames'
  OBVIOUS
<1>0. /\ dir \in [Path -> Slot \cup {Null}] /\ mem \in [Slot -> {"unused", "allocated", "freed"}]
      /\ \A s \in Slot : slots[s].file \in Slot \cup {Null}
  BY DEF FdBase, Base, OwnTypes, FileTypeOK, Members, StorageP!AliveInv, StorageP!CountInv,
     StorageP!TypeOK
<1>1. CASE FilesStay
  BY <1>0, <1>1 DEF FilesStay, FileNames
<1>2. ASSUME NEW s \in Slot, NEW p \in Path, NewFile(s, p) PROVE FileNames'
  <2>1. \A q \in Path : dir[q] # Null => dir[q] # s
    BY <1>2 DEF NewFile, FileNames
  <2>2. \A t \in Slot : slots[t].file # Null => slots[t].file # s
    BY <1>2 DEF NewFile, FileNames
  <2> QED
    BY <1>0, <1>2, <2>1, <2>2 DEF NewFile, FileNames
<1>3. ASSUME NEW s \in Slot, NEW f \in Slot, OpenedFile(s, f) PROVE FileNames'
  <2> DEFINE p == slots[s].path
  <2>1. /\ slots'[s].file = f /\ slots'[s].path = p /\ p \in Path
        /\ \A t \in Slot : t # s => slots'[t] = slots[t]
        /\ dir' = [dir EXCEPT ![p] = f] /\ UNCHANGED mem
        /\ mem[s] = "allocated"
    BY <1>3 DEF OpenedFile
  <2>2. /\ mem[f] # "unused" /\ slots'[f].path = p /\ slots'[f].file = f
    <3>1. CASE f = s
      BY <2>1, <3>1
    <3>2. CASE f # s
      <4>1. dir[p] = f /\ f # Null
        BY <1>3, <3>2, NullAssumption DEF OpenedFile
      <4> QED
        BY <2>1, <3>2, <4>1 DEF FileNames
    <3> QED
      BY <3>1, <3>2
  <2>3. \A t \in Slot : slots[t].file # s
    BY <1>3, NullAssumption DEF OpenedFile, FileNames
  <2>4. ASSUME NEW q \in Path, dir'[q] # Null
        PROVE  /\ mem'[dir'[q]] # "unused"
               /\ slots'[dir'[q]].path = q /\ slots'[dir'[q]].file = dir'[q]
    <3>1. CASE q = p
      BY <1>0, <2>1, <2>2, <3>1
    <3>2. CASE q # p
      <4>1. dir'[q] = dir[q] /\ dir[q] \in Slot /\ slots[dir[q]].file = dir[q]
        BY <1>0, <2>1, <2>4, <3>2 DEF FileNames
      <4>2. dir[q] # s
        BY <2>3, <4>1
      <4> QED
        BY <2>1, <2>4, <4>1, <4>2 DEF FileNames
    <3> QED
      BY <3>1, <3>2
  <2>5. ASSUME NEW t \in Slot, slots'[t].file # Null
        PROVE  /\ mem'[t] # "unused" /\ mem'[slots'[t].file] # "unused"
               /\ slots'[t].path \in Path
               /\ slots'[slots'[t].file].path = slots'[t].path
               /\ slots'[slots'[t].file].file = slots'[t].file
    <3>1. CASE t = s
      BY <2>1, <2>2, <3>1
    <3>2. CASE t # s
      <4>1. slots'[t] = slots[t] /\ slots[t].file \in Slot /\ slots[t].file # s
        BY <1>0, <2>1, <2>3, <2>5, <3>2
      <4> QED
        BY <2>1, <2>5, <4>1 DEF FileNames
    <3> QED
      BY <3>1, <3>2
  <2>6. ASSUME NEW t \in Slot, slots'[t].stored
        PROVE  slots'[t].fh = 0 /\ slots'[t].file # Null
    <3>1. t # s
      BY <1>3, <2>6 DEF OpenedFile, FileNames
    <3> QED
      BY <2>1, <2>6, <3>1 DEF FileNames
  <2>7. ASSUME NEW t \in Slot, slots'[t].fh # 0 PROVE slots'[t].file # Null
    BY <2>1, <2>7, NullAssumption DEF FileNames
  <2> QED
    BY <2>4, <2>5, <2>6, <2>7 DEF FileNames
<1>4. ASSUME NEW s \in Slot, StoredFile(s) PROVE FileNames'
  BY <1>0, <1>4 DEF StoredFile, FileNames
<1>5. ASSUME NEW s \in Slot, UnlinkedFile(s) PROVE FileNames'
  BY <1>0, <1>5 DEF UnlinkedFile, FileNames
<1> QED
  BY <1>1, <1>2, <1>3, <1>4, <1>5, FilesCases

LEMMA GoneStep ==
  ASSUME "unlink" \notin Faults
  PROVE  FdBase /\ FileNames /\ FailedGone /\ [Next]_vars => FailedGone'
<1> SUFFICES ASSUME FdBase, FileNames, FailedGone, [Next]_vars PROVE FailedGone'
  OBVIOUS
<1>0. /\ dir \in [Path -> Slot \cup {Null}]
      /\ \A s \in Slot : slots[s].file \in Slot \cup {Null}
  BY DEF FdBase, Base, OwnTypes, FileTypeOK, Members
<1>1. CASE FilesStay
  BY <1>1 DEF FilesStay, FailedGone
<1>2. ASSUME NEW s \in Slot, NEW p \in Path, NewFile(s, p) PROVE FailedGone'
  BY <1>2 DEF NewFile, FailedGone
<1>3. ASSUME NEW s \in Slot, NEW f \in Slot, OpenedFile(s, f) PROVE FailedGone'
  <2> SUFFICES ASSUME NEW t \in Slot, slots'[t].file # Null, ~slots'[t].stored,
                      slots'[t].fh = 0
               PROVE  dir'[slots'[t].path] # slots'[t].file
    BY DEF FailedGone
  <2>1. t # s /\ slots'[t] = slots[t]
    BY <1>3 DEF OpenedFile
  <2>2. /\ slots[t].path \in Path /\ slots[t].file # s
        /\ dir[slots[t].path] # slots[t].file
    BY <1>3, <2>1, NullAssumption DEF OpenedFile, FileNames, FailedGone
  <2> QED
    BY <1>0, <1>3, <2>1, <2>2 DEF OpenedFile
<1>4. ASSUME NEW s \in Slot, StoredFile(s) PROVE FailedGone'
  BY <1>4 DEF StoredFile, FailedGone
<1>5. ASSUME NEW s \in Slot, UnlinkedFile(s) PROVE FailedGone'
  <2>1. dir' = [dir EXCEPT ![slots[s].path] = Null]
    BY <1>5 DEF UnlinkedFile
  <2> SUFFICES ASSUME NEW t \in Slot, slots'[t].file # Null, ~slots'[t].stored,
                      slots'[t].fh = 0
               PROVE  dir'[slots'[t].path] # slots'[t].file
    BY DEF FailedGone
  <2>2. /\ slots'[t].path = slots[t].path /\ slots'[t].file = slots[t].file
        /\ slots[t].path \in Path
    BY <1>5 DEF UnlinkedFile, FileNames
  <2>3. CASE t = s
    BY <1>0, <2>1, <2>2, <2>3
  <2>4. CASE t # s
    BY <1>0, <1>5, <2>1, <2>2, <2>4 DEF UnlinkedFile, FailedGone
  <2> QED
    BY <2>3, <2>4
<1> QED
  BY <1>1, <1>2, <1>3, <1>4, <1>5, FilesCases

\* A transfer that failed leaves no file under its path, whichever requests
\* overlap and whatever else fails (fs_transfer.hpp:96-105).
THEOREM NoFileOfAFailure ==
  ASSUME "end_is_last" \in Hub, Faults \cap {"close", "unlink"} = {}, 0 \notin Size
  PROVE  Spec => []FailureLeavesNoFile
<1> DEFINE Inv == FdBase /\ FileNames /\ FailedGone
<1>1. Init => FileNames /\ FailedGone
  BY DEF Init, Unused, FileNames, FailedGone
<1>2. FileNames /\ FailedGone /\ FdBase /\ [Next]_vars => FileNames' /\ FailedGone'
  BY NamesStep, GoneStep
<1>3. FdBase /\ FailedGone => FailureLeavesNoFile
  <2> SUFFICES ASSUME FdBase, FailedGone, NEW s \in Slot, mem[s] = "freed",
                      ~slots[s].stored, slots[s].file # Null
               PROVE  dir[slots[s].path] # slots[s].file
    BY DEF FailureLeavesNoFile
  <2>1. slots[s].fh = 0
    BY OpenAllocated
  <2> QED
    BY <2>1 DEF FailedGone
<1>4. Spec => []FdBase
  BY FdInvariant
<1> QED
  BY <1>1, <1>2, <1>3, <1>4, PTL DEF Spec

-----------------------------------------------------------------------------
\* What is reported as stored is stored.
LEMMA UploadStep ==
  ASSUME "awaits_cleanup" \in Hub
  PROVE  FdBase /\ FileNames /\ OneUpload /\ [Next]_vars => OneUpload'
<1> SUFFICES ASSUME FdBase, FileNames, OneUpload, [Next]_vars PROVE OneUpload'
  OBVIOUS
<1>0. /\ dir \in [Path -> Slot \cup {Null}] /\ mem \in [Slot -> {"unused", "allocated", "freed"}]
      /\ \A s \in Slot : slots[s].file \in Slot \cup {Null}
      /\ \A s \in Slot : slots[s].fh # 0 => mem[s] = "allocated"
  BY OpenAllocated
  DEF FdBase, Base, OwnTypes, FileTypeOK, Members, StorageP!AliveInv, StorageP!CountInv,
      StorageP!TypeOK
<1>1. CASE FilesStay
  BY <1>1 DEF FilesStay, OneUpload
<1>2. ASSUME NEW s \in Slot, NEW p \in Path, NewFile(s, p) PROVE OneUpload'
  <2>1. \A t \in Slot : mem[t] = "allocated" /\ slots[t].path = p => slots[t].stored
    BY <1>2 DEF NewFile, HubUploads
  <2> QED
    BY <1>0, <1>2, <2>1 DEF NewFile, OneUpload
<1>3. ASSUME NEW s \in Slot, NEW f \in Slot, OpenedFile(s, f) PROVE OneUpload'
  <2>1. \A t \in Slot : slots'[t].path = slots[t].path /\ slots'[t].stored = slots[t].stored
    BY <1>3 DEF OpenedFile
  <2>2. dir'[slots[s].path] = f /\ slots[s].path \in Path
    BY <1>0, <1>3 DEF OpenedFile
  <2>3. ASSUME NEW t \in Slot, t # s, slots'[t].fh # 0
        PROVE  dir'[slots[t].path] = slots[t].file
    <3>1. slots[t].fh # 0 /\ dir[slots[t].path] = slots[t].file
      BY <1>3, <2>3 DEF OpenedFile, OneUpload
    <3>2. slots[t].path # slots[s].path
      <4>1. ~slots[t].stored /\ ~slots[s].stored
        BY <1>3, <3>1 DEF OpenedFile, FileNames
      <4> QED
        BY <1>0, <1>3, <2>3, <3>1, <4>1 DEF OpenedFile, OneUpload
    <3> QED
      BY <1>0, <1>3, <3>1, <3>2 DEF OpenedFile
  <2> QED
    BY <1>3, <2>1, <2>2, <2>3 DEF OpenedFile, OneUpload
<1>4. ASSUME NEW s \in Slot, StoredFile(s) PROVE OneUpload'
  BY <1>4 DEF StoredFile, OneUpload
<1>5. ASSUME NEW s \in Slot, UnlinkedFile(s) PROVE OneUpload'
  <2>1. \A t \in Slot : slots'[t].path = slots[t].path /\ slots'[t].stored = slots[t].stored
    BY <1>5 DEF UnlinkedFile
  <2>2. ASSUME NEW t \in Slot, slots'[t].fh # 0
        PROVE  dir'[slots'[t].path] = slots'[t].file
    <3>1. t # s /\ slots'[t] = slots[t] /\ slots[t].fh # 0 /\ slots[s].fh # 0
      BY <1>5, <2>2 DEF UnlinkedFile
    <3>2. slots[t].path # slots[s].path
      BY <1>0, <3>1 DEF FileNames, OneUpload
    <3>3. dir[slots[t].path] = slots[t].file /\ slots[t].path \in Path
      BY <3>1 DEF FileNames, OneUpload
    <3> QED
      BY <1>0, <1>5, <3>1, <3>2, <3>3 DEF UnlinkedFile
  <2> QED
    BY <1>5, <2>1, <2>2 DEF UnlinkedFile, OneUpload
<1> QED
  BY <1>1, <1>2, <1>3, <1>4, <1>5, FilesCases

LEMMA Below ==
  \A n, off \in Nat : off >= n => \A b \in Nat : b < n => b < off
OBVIOUS

\* The loop of end() goes on from an offset up to which it has read.
LEMMA HashKeepsSoFar ==
  ASSUME FdBase, NEW r \in Req, req[r].stage \notin Ready, NEW off \in Nat,
         NEW match \in BOOLEAN, HashFrom(r, off, match), UNCHANGED <<slots, content>>,
         match /\ slots[req[r].slot].fh # 0 =>
           \A b \in Block : b < slots[req[r].slot].filesize /\ b < off =>
              content[slots[req[r].slot].file][b] = req[r].slot
  PROVE  SoFar(r)'
<1> DEFINE s == req[r].slot
           n == slots[s].filesize
<1>0. s \in Slot /\ n \in Nat /\ Block \subseteq Nat
  <2>1. s \in Slot
    BY BusyInUse DEF FdBase
  <2>2. n \in Size \cup {0}
    BY <2>1 DEF FdBase, Base, OwnTypes, Members
  <2>3. \A i \in Size \cup {0} : i \in Nat
    BY SizeAssumption
  <2>4. Block \subseteq Nat
    BY SizeAssumption DEF Block
  <2> QED
    BY <2>1, <2>2, <2>3, <2>4
<1>1. DOMAIN req[r] = {"kind", "id", "slot", "off", "fd", "match", "ok", "stage"}
  BY DEF FdBase, Base, OwnTypes, Request
<1>2. CASE Issue(r, "read", off, match)
  <2>1. /\ req'[r].stage = "read" /\ req'[r].slot = s /\ req'[r].fd = slots[s].fh
        /\ req'[r].match = match /\ req'[r].off = off
    BY <1>1, <1>2 DEF Issue, FdBase, Base, OwnTypes
  <2> QED
    BY <2>1 DEF SoFar
<1>3. CASE match /\ off >= n /\ Issue(r, "close", 0, match)
  <2>1. /\ req'[r].stage = "close" /\ req'[r].slot = s /\ req'[r].fd = slots[s].fh
        /\ req'[r].match = match
    BY <1>1, <1>3 DEF Issue, FdBase, Base, OwnTypes
  <2>2. off >= n
    BY <1>3
  <2> HIDE DEF n
  <2>3. \A b \in Block : b < n => b < off
    BY <1>0, <2>2, Below
  <2> QED
    BY <1>3, <2>1, <2>3 DEF SoFar, n
<1>4. CASE Finish(r, FALSE)
  <2>1. req'[r].stage = "answer"
    BY <1>1, <1>4 DEF Finish, FdBase, Base, OwnTypes
  <2> QED
    BY <2>1 DEF SoFar
<1> QED
  BY <1>2, <1>3, <1>4 DEF HashFrom

\* Another request's part stays read: what is written is written to the file
\* of another slot, or by an operation that does not run at the same time.
LEMMA OthersSoFar ==
  ASSUME FdBase, NEW x \in Req, SoFar(x),
         \/ req'[x] = req[x]
         \/ req'[x].stage \notin {"read", "close"},
         req[x].stage \in {"read", "close"} /\ req[x].fd # 0 =>
           /\ slots'[req[x].slot].filesize = slots[req[x].slot].filesize
           /\ slots'[req[x].slot].file = slots[req[x].slot].file
           /\ content'[slots[req[x].slot].file] = content[slots[req[x].slot].file]
  PROVE  SoFar(x)'
<1>1. CASE req'[x].stage \notin {"read", "close"}
  BY <1>1 DEF SoFar
<1>2. CASE req'[x] = req[x]
  BY <1>2 DEF SoFar
<1> QED
  BY <1>1, <1>2

\* A block lands in the file of the slot that writes it.
LEMMA WriteIsOwn ==
  ASSUME FdBase, FileNames, OneUpload, NEW r \in Req, Wrote(r), NEW x \in Req, x # r,
         req[x].stage \in {"read", "close"}, req[x].fd # 0
  PROVE  content'[slots[req[x].slot].file] = content[slots[req[x].slot].file]
<1> DEFINE s == req[r].slot
           t == req[x].slot
           f == slots[t].file
<1>1. /\ Open(t) /\ t \in Slot /\ f \in Slot /\ mem[t] = "allocated"
      /\ state[x] = "running" /\ core[x] = t
  BY WorksOnOpen, BusyInUse DEF InFile, Ready, FdBase, FdInv, Working, Works
<1>2. CASE UNCHANGED content
  BY <1>2
<1>3. CASE /\ FileOf(r) # Stdin
           /\ content' = [content EXCEPT ![FileOf(r)][BlockOf(r)] = s]
  <2>1. req[r].stage = "write" /\ state[r] = "running"
    BY DEF Wrote, At
  <2>2. req[r].fd # 0
    BY <1>3 DEF FileOf, FdBase, FdInv, OpenIsOwn
  <2>3. /\ Open(s) /\ s \in Slot /\ FileOf(r) = slots[s].file /\ FileOf(r) \in Slot
        /\ mem[s] = "allocated" /\ core[r] = s
    BY <2>1, <2>2, WorksOnOpen, BusyInUse DEF InFile, Ready, FdBase
  <2>4. s # t
    BY <1>1, <2>1, <2>3, OneRuns DEF FdBase
  <2>5. ~slots[s].stored /\ ~slots[t].stored
    BY <1>1, <2>3 DEF FileNames, Open
  <2>6. slots[s].path # slots[t].path
    BY <1>1, <2>3, <2>4, <2>5 DEF OneUpload
  <2>7. FileOf(r) # f
    BY <1>1, <2>3, <2>6, NullAssumption DEF FileNames
  <2> QED
    BY <1>1, <1>3, <2>7 DEF FdBase, Base, OwnTypes, FileTypeOK
<1> QED
  BY <1>2, <1>3 DEF Wrote

LEMMA MovesSoFar ==
  ASSUME FdBase, FileNames, OneUpload, WholeSoFar, NEW r \in Req,
         OpenFile(r) \/ WriteBlock(r) \/ CheckSize(r) \/ Callback(r)
  PROVE  WholeSoFar'
<1> USE DEF FdBase
<1>0. /\ \A s \in Slot :
           DOMAIN slots[s] = {"path", "filesize", "written_bytes", "fh", "file", "stored"}
      /\ DOMAIN slots = Slot
      /\ DOMAIN req[r] = {"kind", "id", "slot", "off", "fd", "match", "ok", "stage"}
      /\ DOMAIN req = Req
  BY DEF Base, OwnTypes, Members, Request
<1>1. Moves(r)
  BY CallbackMoves DEF Base, OwnTypes
<1>2. req[r].slot \in Slot /\ core[r] = req[r].slot
  BY <1>1, BusyInUse DEF Moves
<1>3. /\ \A s \in Slot : /\ slots'[s].filesize = slots[s].filesize
                         /\ s # req[r].slot \/ state[r] # "running" =>
                              slots'[s].file = slots[s].file
      /\ UNCHANGED content \/ Wrote(r)
  <2>1. CASE Opened(r)
    <3>1. PICK k, file :
            slots' = [slots EXCEPT ![req[r].slot] = [@ EXCEPT !.fh = k, !.file = file]]
      BY <2>1 DEF Opened
    <3> QED
      BY <1>0, <1>2, <2>1, <3>1 DEF Opened, At
  <2>2. CASE Wrote(r)
    BY <1>0, <2>2 DEF Wrote
  <2>3. CASE ClosedFile(r)
    BY <1>0, <2>3 DEF ClosedFile
  <2>4. CASE OpenFile(r) \/ WriteBlock(r) \/ CheckSize(r) \/ ReadChunk(r) \/ Failed(r)
    BY <2>4 DEF OpenFile, WriteBlock, CheckSize, ReadChunk, Failed, fileVars
  <2> QED
    BY <2>1, <2>2, <2>3, <2>4 DEF Callback
<1>4. ASSUME NEW x \in Req, x # r PROVE SoFar(x)'
  <2>1. req'[x] = req[x] /\ SoFar(x)
    BY <1>1, <1>4 DEF Moves, WholeSoFar
  <2>2. ASSUME req[x].stage \in {"read", "close"}, req[x].fd # 0
        PROVE  /\ slots'[req[x].slot].filesize = slots[req[x].slot].filesize
               /\ slots'[req[x].slot].file = slots[req[x].slot].file
               /\ content'[slots[req[x].slot].file] = content[slots[req[x].slot].file]
    <3>1. req[x].slot \in Slot /\ core[x] = req[x].slot /\ state[x] = "running"
      BY <2>2, BusyInUse DEF Ready, InFile, FdInv, Working, Works
    <3>2. req[x].slot # req[r].slot \/ state[r] # "running"
      BY <1>2, <1>4, <3>1, OneRuns
    <3> QED
      BY <1>3, <1>4, <2>2, <3>1, <3>2, WriteIsOwn
  <2> QED
    BY <2>1, <2>2, OthersSoFar
<1>5. SoFar(r)'
  <2>1. CASE OpenFile(r)
    <3>1. req'[r].stage = "open"
      BY <1>0, <2>1 DEF OpenFile
    <3> QED
      BY <3>1 DEF SoFar
  <2>2. CASE WriteBlock(r)
    <3>1. req'[r].stage = "write"
      BY <1>0, <2>2 DEF WriteBlock, Issue
    <3> QED
      BY <3>1 DEF SoFar
  <2>3. ASSUME NEW ok, Finish(r, ok) PROVE SoFar(r)'
    <3>1. req'[r].stage = "answer"
      BY <1>0, <2>3 DEF Finish
    <3> QED
      BY <3>1 DEF SoFar
  <2>4. CASE CheckSize(r)
    <3>1. CASE Finish(r, FALSE)
      BY <2>3, <3>1
    <3>2. CASE HashFrom(r, 0, req[r].match)
      <4>1. \A b \in Block : ~(b < 0)
        BY SizeAssumption DEF Block
      <4>2. req[r].match \in BOOLEAN /\ req[r].stage \notin Ready
        BY <1>1 DEF Base, OwnTypes, Request, Moves
      <4>3. UNCHANGED <<slots, content>>
        BY <2>4 DEF CheckSize, fileVars
      <4> QED
        BY <3>2, <4>1, <4>2, <4>3, HashKeepsSoFar
    <3> QED
      BY <2>4, <3>1, <3>2 DEF CheckSize
  <2>5. CASE ReadChunk(r)
    <3> DEFINE s == req[r].slot
               o == req[r].off
               f == slots[s].file
               match == req[r].match /\ FileOf(r) # Stdin /\ ChunkMatches(s, FileOf(r), o)
    <3>1. req[r].stage = "read" /\ req[r].stage \notin Ready /\ HashFrom(r, o + Chunk, match)
      BY <2>5 DEF ReadChunk, At, Ready
    <3>2. UNCHANGED <<slots, content>>
      BY <2>5 DEF ReadChunk, fileVars
    <3>3. o \in Nat /\ o + Chunk \in Nat
      <4>1. o \in 0..(Width - 1) \cup Block
        BY DEF Base, OwnTypes, Request
      <4> HIDE DEF o
      <4> QED
        BY <4>1, SizeAssumption, ChunkAssumption DEF Block
    <3>4. match /\ slots[s].fh # 0 =>
            \A b \in Block : b < slots[s].filesize /\ b < o + Chunk => content[f][b] = s
      <4> SUFFICES ASSUME match, slots[s].fh # 0, NEW b \in Block,
                          b < slots[s].filesize, b < o + Chunk
                   PROVE  content[f][b] = s
        OBVIOUS
      <4>1. req[r].fd = slots[s].fh
        BY <3>1 DEF FdInv, Working, Works, InFile
      <4>2. FileOf(r) = f
        BY <3>1, <4>1, WorksOnOpen DEF InFile
      <4>3. CASE b < o
        BY <3>1, <4>1, <4>3 DEF WholeSoFar, SoFar
      <4>4. CASE o <= b
        BY <4>2, <4>4 DEF ChunkMatches
      <4>5. b < o \/ o <= b
        <5>1. b \in Nat
          BY SizeAssumption DEF Block
        <5> HIDE DEF o
        <5> QED
          BY <3>3, <5>1
      <4> QED
        BY <4>3, <4>4, <4>5
    <3>5. match \in BOOLEAN
      BY DEF Base, OwnTypes, Request
    <3> HIDE DEF match, o
    <3>6. match /\ slots[req[r].slot].fh # 0 =>
            \A b \in Block : b < slots[req[r].slot].filesize /\ b < o + Chunk =>
               content[slots[req[r].slot].file][b] = req[r].slot
      BY <3>4
    <3> QED
      BY <3>1, <3>2, <3>3, <3>5, <3>6, HashKeepsSoFar
  <2>6. CASE Opened(r) \/ Wrote(r) \/ ClosedFile(r) \/ Failed(r)
    BY <2>3, <2>6 DEF Opened, Wrote, ClosedFile, Failed
  <2> QED
    BY <2>1, <2>2, <2>4, <2>5, <2>6 DEF Callback
<1> QED
  BY <1>4, <1>5 DEF WholeSoFar

LEMMA SoFarStep ==
  FdBase /\ FileNames /\ OneUpload /\ WholeSoFar /\ [Next]_vars => WholeSoFar'
<1> SUFFICES ASSUME FdBase, FileNames, OneUpload, WholeSoFar, [Next]_vars
             PROVE  WholeSoFar'
  OBVIOUS
<1>0. /\ \A s \in Slot :
           DOMAIN slots[s] = {"path", "filesize", "written_bytes", "fh", "file", "stored"}
      /\ DOMAIN slots = Slot
      /\ req \in [Req -> Request]
  BY DEF FdBase, Base, OwnTypes, Members
<1>1. ASSUME NEW r \in Req, NEW kind, NEW id, NEW s \in Slot, NEW off, NEW match,
             Handle(r, kind, id, s, off, match),
             \A t \in Slot : mem[t] # "unused" => slots'[t] = slots[t]
      PROVE  WholeSoFar'
  <2>1. /\ \A x \in Req : x # r => req'[x] = req[x]
        /\ req'[r].stage = "wrapped" /\ UNCHANGED content
    BY <1>0, <1>1, HandleSets DEF Handle, fileVars
  <2>2. ASSUME NEW x \in Req PROVE SoFar(x)'
    <3>1. req'[x] = req[x] \/ req'[x].stage \notin {"read", "close"}
      BY <2>1
    <3>2. req[x].stage \in {"read", "close"} =>
            req[x].slot \in Slot /\ mem[req[x].slot] = "allocated"
      BY BusyInUse DEF Ready, FdBase
    <3> QED
      BY <1>1, <2>1, <3>1, <3>2, OthersSoFar DEF WholeSoFar
  <2> QED
    BY <2>2 DEF WholeSoFar
<1>2. CASE Requests
  <2>1. ASSUME NEW r \in Req, NEW id \in Id, NEW s \in Slot, NEW p \in Path, NEW n \in Size,
               StartTransfer(r, id, s, p, n)
        PROVE  WholeSoFar'
    BY <1>0, <1>1, <2>1 DEF StartTransfer, Transfers!Emplace, Transfers!Allocate
  <2>2. ASSUME NEW r \in Req, NEW id \in Id, NEW off \in Offset, TransferData(r, id, off)
        PROVE  WholeSoFar'
    BY <1>1, <2>2, EntryInUse DEF TransferData, FdBase
  <2>3. ASSUME NEW r \in Req, NEW id \in Id, NEW right \in BOOLEAN, EndTransfer(r, id, right)
        PROVE  WholeSoFar'
    BY <1>1, <2>3, EntryInUse DEF EndTransfer, FdBase
  <2> QED
    BY <1>2, <2>1, <2>2, <2>3 DEF Requests
<1>3. ASSUME NEW r \in Req, Answer(r) PROVE WholeSoFar'
  <2>1. /\ req' = [req EXCEPT ![r] = Free] /\ UNCHANGED <<slots, content>>
    BY <1>3 DEF Answer, fileVars
  <2>2. \A x \in Req : req'[x] = req[x] \/ req'[x].stage \notin {"read", "close"}
    BY <1>0, <2>1 DEF Free
  <2> QED
    BY <2>1, <2>2, OthersSoFar DEF WholeSoFar
<1>4. ASSUME NEW r \in Req, Resume(r) \/ Callback(r) PROVE WholeSoFar'
  BY <1>3, <1>4, MovesSoFar DEF Resume
<1>5. CASE Tick \/ DestroyBegin \/ DestroyClosed \/ UNCHANGED vars
  <2>1. UNCHANGED <<req, slots, content>>
    BY <1>5 DEF Tick, DestroyBegin, DestroyClosed, vars, fileVars
  <2> QED
    BY <2>1, OthersSoFar DEF WholeSoFar
<1>6. CASE DestroyUnlinked
  <2>1. UNCHANGED <<req, content>> /\ slots' = [slots EXCEPT ![destroy_task].fh = 0]
    BY <1>6 DEF DestroyUnlinked
  <2>2. \A s \in Slot : slots'[s].file = slots[s].file /\ slots'[s].filesize = slots[s].filesize
    BY <1>0, <2>1
  <2>3. \A x \in Req : req[x].stage \in {"read", "close"} => req[x].slot \in Slot
    BY DEF FdBase, Base, Placed
  <2> QED
    BY <2>1, <2>2, <2>3, OthersSoFar DEF WholeSoFar
<1> QED
  BY <1>2, <1>4, <1>5, <1>6 DEF Next, Destroy

LEMMA StoredStep ==
  ASSUME FdBase, FileNames, OneUpload, WholeSoFar, [Next]_vars,
         NEW s \in Slot, slots'[s].stored, ~slots[s].stored
  PROVE  /\ slots[s].file # Null
         /\ dir[slots[s].path] = slots[s].file
         /\ \A b \in Block : b < slots[s].filesize => content[slots[s].file][b] = s
<1> USE DEF FdBase
<1>0. /\ \A t \in Slot :
           DOMAIN slots[t] = {"path", "filesize", "written_bytes", "fh", "file", "stored"}
      /\ DOMAIN slots = Slot
  BY DEF Base, OwnTypes, Members
<1>1. UNCHANGED slots => FALSE
  OBVIOUS
<1>2. Requests => FALSE
  BY <1>0, <1>1 DEF Requests, StartTransfer, TransferData, EndTransfer, Unused
<1>3. \A r \in Req : Resume(r) => FALSE
  BY <1>1 DEF Resume, OpenFile, WriteBlock, CheckSize, Answer
<1>4. Tick \/ Destroy \/ UNCHANGED vars => FALSE
  BY <1>0, <1>1 DEF Tick, Destroy, DestroyBegin, DestroyClosed, DestroyUnlinked, vars
<1>5. PICK r \in Req : Callback(r)
  BY <1>2, <1>3, <1>4 DEF Next
<1>6. ~Opened(r)
  <2> SUFFICES ASSUME Opened(r) PROVE FALSE
    OBVIOUS
  <2>1. PICK k, file :
          slots' = [slots EXCEPT ![req[r].slot] = [@ EXCEPT !.fh = k, !.file = file]]
    BY DEF Opened
  <2> QED
    BY <1>0, <2>1
<1>7. ~Wrote(r)
  BY <1>0 DEF Wrote
<1>8. ClosedFile(r)
  BY <1>1, <1>5, <1>6, <1>7 DEF Callback, ReadChunk, Failed
<1>9. req[r].slot = s
  BY <1>0, <1>8 DEF ClosedFile
<1>10. req[r].stage = "close" /\ req[r].fd # 0
  BY <1>8 DEF ClosedFile, At, FdInv, Working, Works
<1>11. slots[s].fh # 0 /\ slots[s].file \in Slot
  BY <1>9, <1>10, WorksOnOpen DEF InFile, Open
<1> QED
  BY <1>9, <1>10, <1>11, NullAssumption DEF WholeSoFar, SoFar, OneUpload

\* A transfer is reported as a success only when its path names a file that
\* starts with the declared content, if the hub does not upload to a path again
\* before the file of a failed transfer is cleaned up.  What an older and longer
\* file had behind it can still be there (fs_transfer.hpp:44, 61-81).
THEOREM SuccessIsStored ==
  ASSUME {"end_is_last", "awaits_cleanup"} \subseteq Hub, "close" \notin Faults,
         0 \notin Size
  PROVE  Spec => SuccessMeansStored
<1> DEFINE Inv == FileNames /\ OneUpload /\ WholeSoFar
<1>1. Init => Inv
  BY DEF Init, Transfers!Init, Unused, Free, FileNames, OneUpload, WholeSoFar, SoFar
<1>2. Inv /\ FdBase /\ [Next]_vars => Inv'
  BY NamesStep, UploadStep, SoFarStep
<1>3. Inv /\ FdBase /\ [Next]_vars =>
        [\A s \in Slot : slots'[s].stored /\ ~slots[s].stored =>
           /\ slots[s].file # Null
           /\ dir[slots[s].path] = slots[s].file
           /\ \A b \in Block : b < slots[s].filesize =>
                content[slots[s].file][b] = s]_vars
  BY StoredStep
<1>4. Spec => []FdBase
  BY FdInvariant
<1> HIDE DEF Inv
<1> QED
  BY <1>1, <1>2, <1>3, <1>4, PTL DEF Spec, SuccessMeansStored
=============================================================================
