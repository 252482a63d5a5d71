---------------------------- MODULE FoldersProps ----------------------------
(***************************************************************************)
(* What must be true of Folders.                                           *)
(***************************************************************************)
EXTENDS Folders

\* Who has made a directory and will enter it into the map, and who has
\* removed one and will erase its entry or make it again.
Makers(n) == {r \in Req : req[r].name = n /\ req[r].stage = "emplace"}

Removers(n) ==
    {r \in Req : req[r].name = n /\
        \/ req[r].stage \in {"erase", "remake"}
        \/ req[r].kind = "clear" /\ req[r].stage = "mkdir"}

One(S) == \E r \in S : S = {r}

\* who keeps an iterator into the map over a wait, and will use it
Iterating(n) ==
    {r \in Req : req[r].kind \in {"delete", "clear"} /\ req[r].name = n /\
        req[r].stage \in {"shutdown", "close", "unlink", "shut", "erase", "remake"}}

\* The map and the disk agree, up to the one request that is between the two,
\* and an iterator that is kept over a wait points to the entry it was made
\* for.  A folder without a directory (or the reverse) that nobody is about to
\* put right could never be created, deleted or cleared again
\* (folder.hpp:113-142, 144-175).
MapMatchesDisk ==
    phase = "ready" =>
        \A n \in Name \ TooLong :
            /\ flds[n] = Null =>
                 Removers(n) = {} /\ IF n \in disk THEN One(Makers(n)) ELSE Makers(n) = {}
            /\ flds[n] # Null =>
                 Makers(n) = {} /\ IF n \in disk THEN Removers(n) = {} ELSE One(Removers(n))
            /\ \A r \in Iterating(n) : flds[n] = req[r].folder

\* The walk of a folder_delete over the uploads of a folder, which waits at
\* each, stands on a slot that is allocated and in the list, and closes a
\* descriptor that is open; and when the slot is destroyed, too, its descriptor
\* is not closed a second time, unless the unlink failed and the file is still
\* there (folder.hpp:148-149; fs_transfer.hpp:84-105).
UploadsOutliveWalk ==
    /\ \A r \in Req : req[r].kind = "delete" /\ req[r].slot # Null =>
         /\ mem[req[r].slot] = "allocated"
         /\ \E i \in 1..Len(deps[req[r].folder]) : deps[req[r].folder][i] = req[r].slot
         /\ req[r].stage = "close" => slots[req[r].slot].open
    /\ destroy_task # Null /\ to_erase = Null /\ slots[destroy_task].fh =>
         slots[destroy_task].open \/ destroy_task \in files

\* Every request is answered, unless a shutdown of an upload hangs in clear()
\* (folder.hpp; fs_transfer.hpp:87).
RequestsAreAnswered ==
    \A r \in Req : req[r].stage # "free" ~> (req[r].stage = "free" \/ spinning)
=============================================================================
