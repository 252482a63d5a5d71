# trctl: verification of the unit's asynchronous core

trctl lets a *hub* drive *units* over TCP: upload files into folders, run
programs there, watch their output, cancel them. A unit is one process with one
libuv loop. Every request of the hub becomes a coroutine (an `ecor` task); all
state lives in a few asynchronous containers, and what can go wrong is the
order in which calls, callbacks, ticks and resumptions follow each other. The
specifications here model that order.

Paths below are relative to `src/src/`.

## Inventory

| component | source | state | operations | what is hard, what makes it correct |
|---|---|---|---|---|
| async storage | `util/async_storage.hpp` | map entries, reference counts, list of condemned objects, the one destroy task, a waiting `shutdown()` | `emplace`, `try_emplace`, `erase`, `clear`, copies of `async_ptr`, `async_ptr_source::get`, tick, `shutdown` | objects are destroyed asynchronously and one at a time: no object is used after it is freed, destroyed twice, or forgotten; `shutdown()` returns, and not too early |
| sender fifo | `util/async_sender_fifo.hpp` | current operation, list of waiting ones | start, end (value, error, stopped) | mutual exclusion, order, nobody stranded |
| async queue, async optional | `util/async_queue.hpp`, `util/async_optional.hpp` | items, waiting receivers; a value, waiting receivers | `enque`, `enque_all`, `deque`; `emplace`, wait | an item goes to one receiver, in order; nobody waits for what is there |
| file transfers | `unit/fs_transfer.hpp` | map of slots; descriptor, declared size, bytes written of each | start, data, end, `destroy`, `shutdown` | operations of one slot overlap with its end and destruction; descriptors and names are shared with other slots and reused; every step of the file system can fail |
| tasks | `unit/process.hpp` | map of procs; process, pipes, queue, exit status of each | start, progress, cancel, list; read, end and exit callbacks; `destroy` | callbacks race cancels; the exit races the output; a proc must outlive its child |
| folders | `unit/folder.hpp` | map of folders; the uploads that depend on each | init, create, delete, clear, `destroy` | map and disk change in different steps; delete while uploads begin, end and are shut down |
| recursive removal | `fs.hpp:518-712`, `str.hpp` | the open directories in an array of fixed size, one path buffer they share | the chain of callbacks of `fs_rm_rf` | paths are cut at the end of the buffer, the array can be full, others write into the tree: nothing outside is removed, success means that all is gone |
| file system senders | `fs.hpp` | the request in flight | open, close, read, write, unlink, mkdir, access, `dir_iter` | errors between two steps |
| task core, task slots | `task.hpp` | ready tasks; running and finished slots | reschedule, run, emplace, finish, `shutdown` | deferred resumption; a loop run inside a loop at shutdown: no component is shut down under a handler |
| unit dispatcher | `unit/unit.hpp` | connection, components | `on_msg` and its branches, `shutdown` | every request is answered; order of shutdown |
| COBS framing | `cobs.hpp`, `util.hpp`, `util.cpp` | receive buffer | encode, decode, receive | frames in arbitrary chunks, limits of the buffer: what is sent arrives whole, once and in order |
| hub server | `server.hpp`, `server.cpp`, `hub/main.cpp` | clients, the transaction that waits | accept, send, receive, close | a reply meets the request it belongs to |
| client connection | `client.hpp`, `client.cpp` | a socket | connect, read | libuv calls only |
| messages | `npb.hpp`, `iface.hpp`, `iface.cpp` | none | allocate, encode, decode, print | wording and generated code |

How they interact: the dispatcher calls the components' coroutines; they keep
objects in the storage and run operations on a slot through its fifo; libuv
calls back the file system senders and the procs; a callback does not resume a
coroutine at once but makes it ready (`task.hpp:60-63`), and an idle handle
runs ready tasks (`task.hpp:28-34`) and ticks the storage (`task.hpp:86-96`) on
every turn of the loop.

`PROJECT.json` lists the hazards of this code, each at its line, with the
property that would show it.

## Atomicity

There is one thread. One call into a component, one libuv callback, one
resumption of a coroutine up to its next wait, and one tick are each one step;
everything they do is in that step. What interleaves is the order of the steps,
and because resumption is deferred, the completion of an operation and the
continuation of the coroutine that waits for it are two steps with anything in
between. There is one exception: in `FileTransfer` the callback of an open, a
write or a close and the deferred continuation of that coroutine are one step
(`Opened`, `Wrote`, `ClosedFile`). Nothing can come between the two, because the
coroutine is the current operation of its slot's fifo until it has ended, and
the other requests on the slot wait behind it.

## Modules

| module | models | corresponds to |
|---|---|---|
| `ObjectLifetime` | what the storage promises about an object | `util/async_storage.hpp:11-20` |
| `AsyncStorage`, `AsyncStorageProps` | the storage | `m`, `cnt`, `to_del`, `destroy_task` are the members of those names; `held` the pointers outside the map; `mem` the allocation; `to_erase` the result that `_destroy_recv` leaves for the next tick; `spinning` a `clear()` that never ends. `Tick` is lines 273-287 |
| `SenderLine` | what the fifo promises | |
| `SenderFifo` | the fifo and its properties | `current`, `waiters`; `core` and `state` belong to an operation. A sender that has ended can be connected again as a new operation |
| `FileTransfer`, `FileTransferProps` | file transfers; composes `AsyncStorage` (objects are slots, holders are the start coroutines) and `SenderFifo` (one per slot) | `req` is a coroutine: `stage` says what it waits for (`wrapped`: its turn in the fifo; a file system operation; `answer`: to be resumed). `slots` are the members, `fds`, `dir`, `content` the process's descriptors and the file system, `destroyer` the coroutine of `destroy()` |
| `Proc`, `ProcProps` | tasks; composes `AsyncStorage`; the queue and the optional are part of it | `child` is the process, `tracked` is `process.data`, `queue`, `deque_waiters` and `exit_status` the `proc_stream`; `consumed`, `handed`, `told_exit` record what was read and what requests were given |
| `Folders`, `FoldersProps` | folders and the uploads into them; composes `AsyncStorage` for the uploads (holders are the requests that wait on one) | `flds` is the map, `deps` the list `deps` of each folder, `condemned` the folders that were erased and not destroyed; `disk` and `files` what is on disk; `phase` is `folder_init`. An upload is a slot with a name, what it believes of its descriptor (`fh`) and what is true (`open`); its content is in `FileTransfer` |
| `TreeRemoval` | what removing a directory promises while others use it | |
| `RmRf` | `fs_rm_rf` with its array and its buffer, called for one directory (`Target`) of the working directory (`Root`), which holds other things as well | `stack` is `dirs` up to `p`, with the end of each `fixed_str` node and the directory it has open; `str` the shared string; `op` the libuv operation in flight. A path is a string and the kernel decides what it names, inside the target or beside it, so a string that was cut can name something else |
| `Cobs` | the encoder and the decoder, byte by byte | `Insert` and `Iter` are the steps of the iterators of `cobs.hpp`; `Encoding` and `Decoding` are functions from the number of bytes read to the state after them. Whether a frame `Fits` its target is said of the state the encoder ends in |
| `Channel` | what one direction of a connection promises | |
| `Link` | `cobs_send`, TCP as a sequence of bytes cut anywhere, `cobs_receiver` | `rx` is `rx_buffer` up to `rx_used`; `up` is lost where the code aborts |
| `Session` | hub, connection and unit: transactions, slots of the requests, shutdown; each direction is a `Channel` | `txn` is the coroutine of `transact`, `client` the `server_client`, `slot` the `task_slot` of a request, `detached` the slots whose `slots` is null, `silent` the requests that got no slot or no reply, `stage` how far `unit_ctx::shutdown` is |

The proofs are in `AsyncStorageProofs`, `SenderFifoProofs`, `FileTransferProofs`,
`ProcProofs`, `FoldersProofs`, `RmRfProofs`, `LinkProofs` and `SessionProofs`.
`MC*` modules
and the `.cfg` files give the constants values. Definitions marked "defect" are
mutations of the definition that follows them and are used only to see that the
properties can fail.

Who uses whom: `FileTransfer`, `Proc` and `Folders` instantiate `AsyncStorage`,
`FileTransfer` also `SenderFifo`; `RmRf` is `TreeRemoval` in detail, and
`Folders` removes a directory in the steps that `TreeRemoval` allows (file by
file, then the directory, or a failure in between); `Link` is `Channel` in
detail, and `Session` talks over two channels. Where a handler is a running
slot in `Session`, its content is a request of `FileTransfer`, `Proc` or
`Folders`.

Data is abstract. A path is what is left of the two names after `snprintf` has
cut it to the 128 bytes of `unit/unit.hpp:92, 105-111`: two uploads with
different long names can therefore have the same path, and what is said below
of one path is said of cut paths. A file is named by the slot that created it
and a block by the slot whose content it is, so that "the file has the declared
content" is "each of its blocks is the slot's". A hash is right when the
content is. The declared size and offsets count blocks, one per data request;
the modulus of offsets (`Width`) stands for 2^64. The output of a child is a
numbered sequence of writes, one read each; a read of no bytes, which enqueues
an event without content (`unit/process.hpp:150-166`), is not told from none. A
read that cannot be started and a stream that ends or fails while the child
lives are in the model. A message of `Session` is the transaction it belongs
to; a message of `Link` is its bytes, because the framing is about them.

Outside `src/` and modelled from its use: the hub (which requests it sends),
libuv and the kernel (lowest free descriptor, descriptor 0 open on stdin, a
negative offset meaning the current position, a failed close that has released
the descriptor, a directory stream that may or may not show what changes under
it), child processes, TCP.

## Runs

| run | question | bounds |
|---|---|---|
| `storage` | are references, destruction and reclamation right in every order, and does the storage refine `ObjectLifetime`? | 2 keys, 3 objects, 2 holders: an object being destroyed, one waiting and one alive at a time, with a pointer outside the map for two of them |
| `storage_shutdown` | does `shutdown()` return? **No** | 2 objects |
| `fifo` | mutual exclusion, order, refinement of `SenderLine`, every operation ends | 2 fifos, 4 operations: three waiting behind one |
| `transfers` | safety of transfers that pipeline, with failing open, write and read and short writes | 2 ids, slots, requests at a time and paths, 2 descriptors beside stdin, sizes 1 and 2, offsets 1 and 7 of 8 (7 is -1: it wraps, and the kernel takes it for "here"); symmetric |
| `transfers_live` | are requests answered and slots freed whatever fails? | 1 id used by 2 slots after each other, 3 requests (one running, two behind it), sizes 0 and 1 |
| `proc` | safety of tasks: callbacks, queue, waiters, no child lost | 2 ids, 2 children, 2 requests at a time, so two cancels of one task, one stream with two writes; symmetric; a hub without any care (`Hub = {}`) |
| `proc_live` | are cancels answered, with the child gone by then, are waiting requests answered and procs freed? | a hub that cancels a task once; 2 ids, 2 children, 2 requests; children that write nothing, which leaves the exit as the only event to wait for |
| `proc_output` | does the output come before the exit? **No** | children that write once to each of two streams |
| `rmrf` | does the walk remove the tree, only the tree, bottom up, or fail? does it refine `TreeRemoval` and end? | a directory `r/a` with another, `r/aa`, beside it that has a file; names `a` and `aa` (one is the beginning of the other, as when a path is cut), trees of up to three levels with files, directories and other entries, an array of 3, a buffer that the longest paths in the directory do not fit, and its own does (`TargetFits`), one change by others, a failing closedir |
| `folders` | do map and disk agree, does the walk over the uploads stay on live slots and open descriptors, is every request answered? | unlinks that may fail; 2 names, one too long; 2 folders, ids, uploads and requests: two uploads shut down one after the other while the storage ticks, a folder created again while the one before it is destroyed, a delete or clear beside another of the same folder |
| `link` | do messages arrive whole and in order, does the receiver give up only on a burst? | full blocks of 3 instead of 255, so that messages of at most 5 bytes fill one and two blocks and end at, before and behind a boundary; 3 messages, a buffer of 9, reads of any length |
| `session` | does a transaction get its own reply or an error, does it end, and is the shutdown ordered? | 2 transactions that overlap or not, with failing sends, a connection that breaks, handlers that end without a reply, requests dropped for want of memory |

Why small instances are enough: objects, slots, procs, folders and requests of
the same kind are interchangeable, and the interactions are between an object
and the one destroyed before it, a slot and the one that reuses its id, path or
descriptor, an operation and the one queued behind it, a request and the one
between whose two steps it runs. Two of each (three where a queue matters) let
all of these happen; the theorems below remove the bounds for everything but
liveness. In `link` blocks of 3 have the boundaries that blocks of 255 have, and
the theorems about framing hold for both.

What the runs take for granted, each named by a constant:

* `Hub` says what the hub is careful about. Transfers pass for a hub that may
  send data before the start is answered, but sends nothing behind an end
  (`end_is_last`), does not upload to one path twice at a time (`one_upload`)
  and waits for the cleanup of a failed upload (`awaits_cleanup`). The safety
  of tasks holds for any hub. A second cancel while the first waits makes the
  code erase through a dead iterator (`unit/process.hpp:333`), which is
  undefined; the model follows that request no further, so `CancelEnds` alone
  needs a hub that cancels a task once (`one_cancel`). Folders pass for a hub
  that is `settled`: it has the answers about a folder before it deletes or
  clears it, begins and ends no upload into it meanwhile, and ends its uploads
  before a clear. This is what a hub can see, its answers. `patient`, chosen in
  the initial state of `Session`, is a hub that waits for one transaction
  before the next; only for it is a reply its own, since no reply carries a
  number that the hub compares.
* `Faults` says what can fail. In `folders` the unlink of an upload can, after
  which `fh` stays set and the slot's destruction closes a descriptor that is no
  longer its own (`unit/fs_transfer.hpp:90`); `UploadsOutliveWalk` says that this
  is the only way to a second close. Left out are a failing close in transfers
  (`unit/fs_transfer.hpp:80`: the slot keeps a descriptor that is no longer its
  own and closes it again, and neither `DescriptorsAreOwn` nor
  `FailureLeavesNoFile` holds), a failing unlink in transfers (the file of a
  failed upload stays), and a failing mkdir in
  `folder_clear` (`unit/folder.hpp:173`: the entry stays without a directory,
  and `MapMatchesDisk` does not hold).
* `Size` of `transfers` has no 0. After an open that failed, an empty upload
  passes the end's checks and closes descriptor 0
  (`unit/fs_transfer.hpp:43, 80`), which is stdin; the run and the theorems
  about descriptors need this. `transfers_live` has size 0.
* `HeldSource = TRUE` restricts `async_ptr_source::get()` to objects that a
  pointer still refers to. `Folders` has `FALSE`: `file_transfer_slot::shutdown`
  calls it on a slot that may be condemned.
* `Prompt = TRUE` in `folders`: when a delete or a clear of a folder begins, and
  when its `rm_rf` ends, no condemned upload into the folder is left
  (`Reclaimed`). This is an assumption about time, and the code does not ensure
  it: the ticks that free a slot which has ended come on every turn of the loop,
  and the hub's next request, or the end of an `rm_rf`, is likely to come later.
  A delete that finds a condemned slot calls `shutdown()` on it, which takes a
  pointer from `src.get()` (`unit/fs_transfer.hpp:86`) and condemns the slot a
  second time. With `Prompt = FALSE` the model has that step, and TLC finds both
  `UploadsOutliveWalk` and `MapMatchesDisk` violated.
* `TargetFits` of `RmRf`: the path of the directory itself, a slash and one
  character more fit the buffer. `folder_delete` and `folder_clear` pass a path
  of any length (`unit/folder.hpp:152-154, 168-172`) to a buffer of 256 bytes,
  which cuts it without an error (`str.hpp:25-33`), and nothing checks it before.
  It is a hypothesis of the theorems and true in the run, not an assumption of
  the module. Without it `RemovalSpec` is false: for the directory `r/aa` and a
  buffer of three characters, TLC shows the walk removing `r/a`.

Deadlock is checked except where the system may really stop: in the two runs of
the storage (`clear()` can spin, and then nothing else of the loop ever runs),
in `folders` for the same reason, in `rmrf` (the walk ends), in `link` (all
messages have been sent) and in `session` (all transactions have ended, or the
unit is down).

### Findings

1. `shutdown()` of the storage can wait forever (`util/async_storage.hpp:284`;
   run `storage_shutdown`).
2. Output that is in the queue when the exit status is set is never handed out
   (`unit/process.hpp:300`; run `proc_output`); the exit is behind it in the
   queue, where the test `unit/test/inpt.txt:138-140` expects it.

Met on the way, where nothing in the repository clearly says otherwise, or the
hub above avoids it:

* The same line 284 signals when the last destruction has *started*, so the
  procs' shutdown returns, and "All procs killed" is logged, while a child runs
  (`unit/process.hpp:242`).
* An end waits for the operation that runs, not for what is queued behind it
  (`unit/fs_transfer.hpp:182`).
* `offset + size` wraps around (`unit/fs_transfer.hpp:168`).
* The late unlink of a failed transfer removes the file of its retry
  (`unit/fs_transfer.hpp:101`).
* The receiver says "message too large" and aborts when the bytes of several
  frames arrive at once and do not fit, though each frame would
  (`util.hpp:95-98`). `AbortsOnBurstOnly` is what is true.
* A unit that is shut down while a handler runs never ends: its slot forgets
  `slots` before it is waited for (`task.hpp:146, 211-225`). `SlotsAreFreed` says
  that no other slot is left.
* A slot of an upload that is already condemned is condemned again by a delete of
  its folder (`unit/fs_transfer.hpp:86`), see `Prompt`.
* A folder whose path does not fit 256 bytes: another is removed in its place
  (`unit/folder.hpp:154`), see `TargetFits`.
* A request for which there is no memory is dropped without a reply
  (`client.hpp:41-44`), and its transaction does not end.

## Fairness

Weak fairness, per action or coroutine, and why the code justifies it: the idle
handles tick and run ready tasks on every turn of the loop; libuv calls back
every file system request that was issued, those of `fs_rm_rf` included; a
destroy task, once connected, is run like every other task; a wrapped sender
completes; a child that has exited is reaped, and a child that gets SIGTERM
exits. The last is an assumption about the programs that run: `bash -c 'exec
...'` passes the signal to the program, and one that ignores it blocks its
cancel and the destruction of every proc behind it. Bytes that were written to
the connection arrive and are read, both sides run their loops, and an end of
the connection is noticed. Handlers end, which is what the liveness properties
of `FileTransfer`, `Proc` and `Folders` say of them one by one. No fairness is
assumed of the hub's requests, of others who change a tree, of a fault, and none
of a child that nobody kills. None is assumed either of the shutdown of a
component, which may wait forever (finding 1), so nothing is claimed about the
end of a unit's shutdown. No liveness is claimed once `clear()` spins, nor,
in `Session`, of a handler that was shut down.

## Proofs

`tlapm` checks the following for all values of the constants that satisfy the
assumptions named in the modules (keys, ids and descriptors are finitely many
natural numbers, `Null` is none of the objects, sizes are small against the
width of an offset, and the like). Faults and the hub's care are constants, so a
theorem without a hypothesis about them holds for all of them.

* `AsyncStorageProofs`: `TypeCorrect` and `CountCorrect` (the count is the
  number of pointers: `CountIsExact`). The inductive invariant is the two
  together, with the finiteness of the set of references: `Release` tests
  `cnt = 1`, which says something about references only if the count is exact.
  From it and `AliveInv` (the condemned list, the destroy task and the freed
  objects are disjoint and unreferenced) follow `ReferencesAreSafe` and
  `NothingIsForgotten`, under `HeldSource = TRUE`, and `ImplementsLifetime`:
  every step of the storage is a step of `ObjectLifetime` or a stutter. With the
  list empty and the counts exact, `ShutdownLeavesNoneWaiting` (`ShutdownDrains`)
  follows for the one step that signals `shutdown()`.
* `SenderFifoProofs`: `MutualExclusion`, `NoneStranded`, `ImplementsLine`. The
  inductive invariant says where each operation is: running ones are current,
  waiting ones are in the list of their own fifo exactly once, and nobody waits
  on a fifo that has no current operation. Without the uniqueness in the list,
  `on_end` could start an operation that still waits elsewhere.
* `FileTransferProofs`: every step of a transfer is a step of the storage and
  of the fifo or leaves them alone (`UsesStorage`, `UsesFifo`), so the
  invariants of the two proof modules, instantiated, hold of transfers and need
  no second proof. With them, `TypeCorrect`, and `NoneOutlivesItsSlot`, if
  nothing is sent behind an end: no request outlives its slot, and the iterator
  of an end stays that of its slot. The inductive invariant: the requests on a
  slot are those in its line; they work on a slot that is in the map or held;
  entries stay while an end is in line; and an end is the last in its line.
  `SlotsLiveOnce` carries the refinement over as well: the slot of a transfer
  lives as `ObjectLifetime` says, whatever fails and whatever the hub sends. In
  the same module, `OperationsUseTheirOwn` and `NoneLeaks`, if also no close
  fails and no upload is empty. The inductive invariant says, for each stage of
  a slot (not opened, being opened, open with operations in line, being
  destroyed), what its descriptor is and that no other slot has it; an open
  descriptor always belongs to a slot that has still to close it. On top of it,
  what happens to the files: `NoFileOfAFailure` (`FailureLeavesNoFile`), if
  also no unlink fails, and `SuccessIsStored` (`SuccessMeansStored`: the file
  starts with the declared content; the tail of a longer file that was there
  before can follow it), if the hub also awaits the cleanup of a failed upload.
  The first needs that a file only ever has names of its creator's path, so
  that the unlink of a slot is that of the file it opened; the second that a
  path has one upload which is not stored yet, and that what `end()` has hashed
  so far is still the slot's. Neither needs `one_upload`: a hub that awaits the
  cleanup cannot start a second upload to a path before the first is stored or
  gone.
* `ProcProofs`: `ProcsOutliveCallbacks` (from where each proc is in its life:
  whoever is tracked, read or waited on is not freed, and `destroy()` frees it
  only behind the exit), `ChildrenAreKept` (`NoOrphans`: a child that has not
  been reaped is tracked and is under an id, or is in or on its way to the
  `destroy()` that kills it), `NobodyWaitsInVain` and `OutputStaysInOrder`
  (each event read is in the queue or handed out, in order and without a gap),
  and `TypeCorrect`, all without a hypothesis about the hub.
  `ProcsAreReclaimed` states of procs what `ReferencesAreSafe` and
  `NothingIsForgotten` state of the storage. It uses the storage's `AliveInv`
  with `HeldSource = TRUE` and no holder outside the map. A start that fails
  allocates a proc and erases its entry in one step, which is none of the
  storage's, and keeps the invariant by a proof of its own
  (`FailedStartKeeps`); for the same reason `Proc` is not a refinement of
  `ObjectLifetime`, which allocates and condemns in two steps.
* `FoldersProofs`: `TypeCorrect`, `FoldersMatchDisk` (`MapMatchesDisk`) and
  `WalkIsSafe` (`UploadsOutliveWalk`), for any number of names, folders,
  uploads and requests and whatever unlinks fail, if the hub is `settled`, no
  mkdir of a clear fails, and `Prompt` holds. The last two exclude by
  hypothesis what would break the properties; the theorems say that nothing
  else does: two deletes or clears at once, ticks that free one upload while
  the walk is at the next, creations at once. Neither property is inductive:
  what a delete finds when it comes back from a wait depends on all requests
  and uploads. The invariant says which requests exclude each other
  (`Exclusive`); that every upload that is allocated is in the list of the
  folder it was made for, and only there, and that an entry of the map has that
  folder (`Owned`, `Entries`); what a slot believes about its file and what is
  true (`Filed`); and, for a delete that walks over the uploads, its place in
  the list: those before it are shut, those behind it alive (`Walk`). The
  storage's own invariant is used with `HeldSource = TRUE` although `Folders`
  leaves `get()` unrestricted: under the hypotheses a delete finds a slot whose
  entry is still there, so that `get()` is always held (`GetAndClearKeeps`).
  There is one lemma per action. From the same invariant,
  `UploadsOutlivePointers`: an upload lives as long as a request or an entry
  points to it, and is reclaimed after that.
* `RmRfProofs`: `TypeCorrect`, `ImplementsRemoval` (`RemovalSpec`),
  `BufferIsRight` (`BufferNamesTop`) and `CrashNeedsDepth`
  (`CrashOnlyWhenTooDeep`), each under `TargetFits`. The kernel removes whatever
  the string names, and an empty directory only. That nothing beside the target
  goes needs the invariant that the string begins with the target's path and its
  slash, wherever it is cut behind them, and that a node whose path is at least
  as long and begins so is inside (`LongerIsInside`). The invariant
  also shows that `done` is said when the directory itself, and not another, was
  removed. For the buffer, the invariant says that every open
  directory has its name in the buffer up to its own end, with a slash unless
  there is no room; that the open directories still exist, each an entry of the
  one below it; and that no two nodes have the same path, which rests on names
  having no slash. `Path` is a constant whose assumption is the recursion itself
  (a path is its parent's, a slash and a name); the run gives it its value, and
  TLC evaluates the assumption.
* `LinkProofs`: `DecodingUndoesEncoding`, for messages of any length, bytes and
  block size: the target that `cobs_send` makes is large enough, and its frame
  has no zero and is decoded to the message. The invariant of the encoder, byte
  by byte (`Encoded`): the decoder makes of the closed blocks and the bytes of
  the open one what was read so far, and the bytes written are those read, the
  first code, and one code for each full block, which stands for `Limit - 1`
  bytes (`Room`). Over TCP, `FramesFit` (`EncodingFits`), `ImplementsChannel`
  (`ChannelSpec`), `AbortsOnlyOnBursts` (`AbortsOnBurstOnly`) and
  `TypeCorrect`. The inductive invariant, `LinkInv`: what the receiver was
  given are the first messages that were sent, and, unless it has aborted, its
  buffer followed by the bytes on their way is the frames of the others, each
  with its zero (`Framed`). That the received messages are a prefix is not
  inductive alone, since what a read hands on depends on the bytes that earlier
  reads have left in the buffer.
* `SessionProofs`: `RepliesAreOwn` and `ShutdownIsOrdered`, for any number of
  transactions and any faults. The inductive invariant: what is delivered was
  sent, a request has a slot only when it was delivered, it was answered only
  after that and once, for a patient hub at most one transaction has requests or
  replies on the way, and behind the stage `slots` no handler is left.
  `UsesChannels`: the steps of a session on each direction of the connection are
  those of a channel, also when the connection breaks or the unit shuts down.
  `ImplementsChannel` says that the bytes of TCP are one.

Induction theorems of the library take an operator as a parameter and cannot be
used. Where a proof needs induction (that paths differ, or that decoding undoes
encoding), it takes the least counterexample instead, which a well-founded order
gives without a parameter (`LeastNumber`). That a recursive function has the
values its equation says is shown in the same way: a function with these values
exists on `0..n` for every `n` (`Recursion`).

Only model-checked is liveness, which is out of the prover's reach because
fairness is: `CondemnedIsFreed` of the storage, `StartedEnds` of the fifo,
`RequestsAreAnswered` and `ErasedIsFreed` of the transfers, `CancelEnds`,
`ProgressEnds` and `ShutdownFreesAll` of the tasks, `RequestsAreAnswered` of the
folders, `WalkEnds` of the removal, `EverythingArrives` of the link, and
`SlotsAreFreed` and `TransactionsEnd` of the session. The two
runs that expect a violation have nothing to prove. Every other property of a
run is a theorem.

`TypeOK` is proved and not run for every module that has one.

## Plan

Done, in this order: `AsyncStorage` with `ObjectLifetime`; `SenderFifo` with
`SenderLine`; `FileTransfer`; `Proc`; `Folders`; `RmRf` with `TreeRemoval`;
`Cobs` and `Link` with `Channel`; `Session`; the proofs listed above.

Left:

1. `Folders` with the descriptors of `FileTransfer` instead of one flag per
   upload: a delete that shuts an upload down while its write is in flight, or
   while data or an end waits in its fifo. `file_transfer_slot::shutdown`
   (`unit/fs_transfer.hpp:84-94`) clears, closes and unlinks outside the fifo; it
   is in `Folders`, without data requests, and not in `FileTransfer`, so the
   properties of the latter are of transfers into folders that nobody deletes.
2. The shutdown of each component as part of the unit's, in place of the steps
   of `Session` that stand for them.
3. The life of procs and of uploads into folders as an `ObjectLifetime`, which
   needs an abstract step that allocates and condemns at once.

## Not modelled

* Messages (`npb.hpp`, `iface.*`): allocation and wording; the encoding is
  generated code. `util.cpp` and `util.hpp` beyond the framing: addresses,
  hashes, the circular memory from which `cobs_send` takes its target.
* The command line and the branches of `on_msg` that only read (`init`, lists).
* The destructors of the storage's map and of the queue, which run when no loop
  runs, or with nobody waiting.
* The sizes of the coroutines' memory and of the hub's list of clients.
* libuv handles that are left open (pipes of a freed proc, directories of a
  removal that failed) and signals to a pid that the kernel has given to another
  process: the models count no handles.
* `mkdtemp`, `stat`, links, `recursive_dir_iter` and the guards of `fs.hpp`,
  used by tests or by no one.
* The 32-bit offset of the hash loop (`unit/fs_transfer.hpp:67`), which matters
  for files near 2^32 bytes only.
* libuv, ecor, zll, nanopb and spdlog, which the build fetches.
