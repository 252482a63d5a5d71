------------------------- MODULE FileTransferProps -------------------------
(***************************************************************************)
(* What must be true of FileTransfer.                                      *)
(***************************************************************************)
EXTENDS FileTransfer

InFile == {"write", "read", "close"}

\* An operation in flight works on the descriptor that its own slot has open,
\* on the file the slot opened, never on one closed or opened again by another
\* slot in the meantime; descriptor 0 is used only by a slot whose open failed
\* (fs_transfer.hpp:33, 48-82).
DescriptorsAreOwn ==
    /\ \A r \in Req : req[r].stage \in InFile =>
         /\ req[r].fd = slots[req[r].slot].fh
         /\ req[r].fd # 0 =>
              FileOf(r) # Null /\ FileOf(r) = slots[req[r].slot].file
         /\ req[r].fd = 0 => slots[req[r].slot].file = Null
    /\ destroyer.step = "close" => fds[destroyer.fd].file = slots[destroy_task].file

\* No coroutine outlives the slot it works on: a start keeps it alive itself,
\* the others rely on the entry, which nobody else erases before they are
\* done; the iterator that an end keeps over its wait stays the slot's
\* (fs_transfer.hpp:150-152, 167-176, 183-191).
SlotsOutliveRequests ==
    \A r \in Req :
        /\ req[r].kind = "start" => held[r] = req[r].slot /\ mem[req[r].slot] = "allocated"
        /\ req[r].kind = "data" /\ req[r].stage # "answer" => m[req[r].id] = req[r].slot
        /\ req[r].kind = "end" => m[req[r].id] = req[r].slot

\* Every open descriptor belongs to a slot that still exists, whose destroy()
\* or end() will close it: none leaks (fs_transfer.hpp:79-81, 96-105).
NoDescriptorLeaks ==
    \A k \in Fd : fds[k].file \notin {Null, Stdin} =>
        \E s \in Slot : mem[s] = "allocated" /\ slots[s].fh = k

\* A transfer is reported as a success only when its path names a file that
\* starts with the declared content, at the moment the file is closed
\* (test inpt.txt:58-60; fs_transfer.hpp:61-81).
SuccessMeansStored ==
    [][\A s \in Slot : slots'[s].stored /\ ~slots[s].stored =>
         /\ slots[s].file # Null
         /\ dir[slots[s].path] = slots[s].file
         /\ \A b \in Block : b < slots[s].filesize =>
              content[slots[s].file][b] = s]_vars

\* A transfer that failed leaves no file: when its slot is freed, the file it
\* had opened has no name any more (test inpt.txt:677-678, 857;
\* fs_transfer.hpp:96-105).
FailureLeavesNoFile ==
    \A s \in Slot : mem[s] = "freed" /\ ~slots[s].stored /\ slots[s].file # Null =>
        dir[slots[s].path] # slots[s].file

\* Every request that was accepted is answered (unit.hpp:113-154, 400).
RequestsAreAnswered ==
    \A r \in Req : req[r].stage # "free" ~> req[r].stage = "free"

\* A slot that lost its entry is destroyed and freed in the end, whichever of
\* its file system operations fail (fs_transfer.hpp:96-105).
ErasedIsFreed ==
    \A s \in Slot : (mem[s] = "allocated" /\ cnt[s] = 0) ~> mem[s] = "freed"
=============================================================================
