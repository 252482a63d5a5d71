------------------------------ MODULE Session ------------------------------
(***************************************************************************)
(* A hub and a unit: transactions of the hub (server.hpp, hub/main.cpp),   *)
(* the connection, and the unit's task_slots (task.hpp), which run one     *)
(* coroutine for each request (unit.hpp), up to the shutdown of the unit.  *)
(* Each direction of the connection is a Channel, which Link implements.   *)
(***************************************************************************)
EXTENDS Naturals, Sequences

CONSTANTS
    Txn,    \* transactions of the hub, each with one request and its reply
    Error,  \* what a transaction gets that fails
    Faults  \* what can fail: "send" cobs_send, "network" the connection,
            \* "silent" a handler, which then ends without a reply, "memory"
            \* the buffer of the unit for a request that has come

ASSUME FaultsAssumption == Faults \subseteq {"send", "network", "silent", "memory"}

VARIABLES
    patient,    \* the hub starts a transaction only when no other is waiting
    client,     \* the server_client: accepting, refused, open, closing, removed
    txn,        \* the coroutine of each transaction: new, waiting, replied, ended
    reply,      \* whose reply the bytes are that a transaction was given
    requests, delivered,  \* the channel to the unit
    replies, received,    \* the channel to the hub
    tcp,        \* the unit's socket: open, closed, aborted (with the unit)
    slot,       \* the task_slot of each request: none, running, over, finished, freed
    detached,   \* slots that were told to shut down: their `slots` is null
    silent,     \* requests that ended, or never began, without a reply
    stage       \* the shutdown of the unit: none, slots, procs, files, folders, down

hubVars == <<client, txn, reply>>
wireVars == <<requests, delivered, replies, received>>
unitVars == <<tcp, slot, detached, silent, stage>>
vars == <<patient, hubVars, wireVars, unitVars>>

ToUnit == INSTANCE Channel WITH Message <- Txn, sent <- requests, got <- delivered
ToHub == INSTANCE Channel WITH Message <- Txn, sent <- replies, got <- received

Stages == {"none", "slots", "procs", "files", "folders", "down"}

TypeOK ==
    /\ patient \in BOOLEAN
    /\ client \in {"accepting", "refused", "open", "closing", "removed"}
    /\ txn \in [Txn -> {"new", "waiting", "replied", "ended"}]
    /\ reply \in [Txn -> Txn \cup {Error}]
    /\ \A q \in {requests, delivered, replies, received} : q \in Seq(Txn)
    /\ tcp \in {"open", "closed", "aborted"}
    /\ slot \in [Txn -> {"none", "running", "over", "finished", "freed"}]
    /\ detached \subseteq Txn
    /\ silent \subseteq Txn
    /\ stage \in Stages

Init ==
    /\ patient \in BOOLEAN
    /\ client = "accepting"
    /\ txn = [t \in Txn |-> "new"]
    /\ reply = [t \in Txn |-> Error]
    /\ ToUnit!Init
    /\ ToHub!Init
    /\ tcp = "open"
    /\ slot = [t \in Txn |-> "none"]
    /\ detached = {}
    /\ silent = {}
    /\ stage = "none"

In(q) == {q[i] : i \in DOMAIN q}

-----------------------------------------------------------------------------
\* The hub.

\* server_new_conn: a connection that cannot be accepted is closed, and nobody
\* is told of it
Accept ==
    /\ client = "accepting"
    /\ \/ client' = "open"
       \/ "network" \in Faults /\ client' = "refused"
    /\ UNCHANGED <<patient, txn, reply, wireVars, unitVars>>

Waiting == {t \in Txn : txn[t] = "waiting"}

\* every receiver that waits on recv_src is completed with r
Complete(waiters, r) ==
    /\ txn' = [t \in Txn |-> IF t \in waiters THEN "replied" ELSE txn[t]]
    /\ reply' = [t \in Txn |-> IF t \in waiters THEN r ELSE reply[t]]

MayStart(t) ==
    /\ txn[t] = "new"
    /\ patient => \A u \in Txn : txn[u] \in {"new", "ended"}

\* _transact_op::start: it waits on recv_src, then it sends
Transact(t) ==
    /\ MayStart(t)
    /\ client = "open"
    /\ txn' = [txn EXCEPT ![t] = "waiting"]
    /\ ToUnit!Send(t)
    /\ UNCHANGED <<patient, client, reply, replies, received, unitVars>>

\* cobs_send fails, which is an error for every transaction that waits
TransactFails(t) ==
    /\ MayStart(t)
    /\ client = "closing" \/ (client = "open" /\ "send" \in Faults)
    /\ Complete(Waiting \cup {t}, Error)
    /\ UNCHANGED <<patient, client, wireVars, unitVars>>

\* defect: one of those that wait is completed
HubReadOne ==
    /\ client = "open"
    /\ ToHub!Deliver
    /\ IF Waiting = {} THEN UNCHANGED <<txn, reply>>
       ELSE Complete({CHOOSE t \in Waiting : TRUE}, replies[Len(received) + 1])
    /\ UNCHANGED <<patient, client, requests, delivered, unitVars>>

\* server_client_read: the first reply is for all that wait, and the others
\* for nobody.  The transactions keep a view of rx_buffer until they are
\* resumed: it shows the last frame that was moved to the front.
HubRead ==
    /\ client = "open"
    /\ ToHub!Deliver
    /\ Complete(Waiting \cup {t \in Txn : txn[t] = "replied" /\ reply[t] # Error},
                replies[Len(received')])
    /\ UNCHANGED <<patient, client, requests, delivered, unitVars>>

\* the coroutine of transact() is resumed and decodes what it sees
Resume(t) ==
    /\ txn[t] = "replied"
    /\ txn' = [txn EXCEPT ![t] = "ended"]
    /\ UNCHANGED <<patient, client, reply, wireVars, unitVars>>

\* the end of the connection or a read error, then server_client_close or its
\* like for a refused one, which destroys the client and leaves those that wait
\* on it without an answer
HubEof ==
    /\ client = "open"
    /\ tcp # "open" \/ "network" \in Faults
    /\ client' = "closing"
    /\ UNCHANGED <<patient, txn, reply, wireVars, unitVars>>

RemoveClient ==
    /\ client \in {"closing", "refused"}
    /\ client' = "removed"
    /\ UNCHANGED <<patient, txn, reply, wireVars, unitVars>>

-----------------------------------------------------------------------------
\* The unit.  After an abort nothing happens.

\* defect: of the frames of one read the last one gets a slot
UnitReadLast ==
    /\ tcp = "open"
    /\ ToUnit!Deliver
    /\ slot' = [slot EXCEPT ![requests[Len(delivered')]] = "running"]
    /\ UNCHANGED <<patient, hubVars, replies, received, tcp, detached, silent, stage>>

\* client_read: each frame gets a slot, whose coroutine starts, unless there is
\* no memory for a copy of it
UnitRead ==
    /\ tcp = "open"
    /\ ToUnit!Deliver
    /\ \E dropped \in SUBSET (In(delivered') \ In(delivered)) :
         /\ dropped = {} \/ "memory" \in Faults
         /\ slot' = [t \in Txn |->
                      IF t \in In(delivered') /\ t \notin In(delivered) \cup dropped
                      THEN "running" ELSE slot[t]]
         /\ silent' = silent \cup dropped
    /\ UNCHANGED <<patient, hubVars, replies, received, tcp, detached, stage>>

\* defect: slots = nullptr is not looked for, nor is the slot linked
FinishedForgotten(t) == slot' = [slot EXCEPT ![t] = "over"]

\* task_slot::finished: a slot without its `slots` stays where it is
Finished(t) == slot' = [slot EXCEPT ![t] = IF t \in detached THEN "over" ELSE "finished"]

\* defect: a reply is sent when the handler fails, and again at its end
AnswerTwice(t) ==
    /\ tcp = "open"
    /\ slot[t] = "running"
    /\ \/ ToHub!Send(t) /\ Finished(t)
       \/ ToHub!Send(t) /\ t \notin In(replies) /\ UNCHANGED slot
    /\ UNCHANGED <<patient, hubVars, requests, delivered, tcp, detached, silent, stage>>

\* on_raw_msg sends the reply of on_msg
Answer(t) ==
    /\ tcp = "open"
    /\ slot[t] = "running"
    /\ ToHub!Send(t)
    /\ Finished(t)
    /\ UNCHANGED <<patient, hubVars, requests, delivered, tcp, detached, silent, stage>>

\* It does not: the message is not decoded, the handler ends with an error
\* or is stopped, cobs_send fails, or the socket is closed.
EndSilently(t) ==
    /\ tcp # "aborted"
    /\ slot[t] = "running"
    /\ tcp = "closed" \/ Faults \cap {"silent", "send"} # {}
    /\ silent' = silent \cup {t}
    /\ Finished(t)
    /\ UNCHANGED <<patient, hubVars, wireVars, tcp, detached, stage>>

\* task_slots::tick
Tick ==
    /\ tcp # "aborted"
    /\ \E t \in Txn : slot[t] = "finished"
    /\ slot' = [t \in Txn |-> IF slot[t] = "finished" THEN "freed" ELSE slot[t]]
    /\ UNCHANGED <<patient, hubVars, wireVars, tcp, detached, silent, stage>>

\* client_read at the end of the connection: client_close aborts the unit
ClientEof ==
    /\ tcp = "open"
    /\ client \in {"closing", "refused", "removed"} \/ "network" \in Faults
    /\ tcp' = "aborted"
    /\ UNCHANGED <<patient, hubVars, wireVars, slot, detached, silent, stage>>

\* unit_ctx::shutdown begins
Stop ==
    /\ stage = "none"
    /\ tcp = "open"
    /\ tcp' = "closed"
    /\ stage' = "slots"
    /\ UNCHANGED <<patient, hubVars, wireVars, slot, detached, silent>>

\* the list _slots, as places in the order in which the requests came
Listed == {i \in DOMAIN delivered : slot[delivered[i]] \in {"running", "over"}}

\* what is shut down after what
After ==
    [slots |-> "procs", procs |-> "files", files |-> "folders", folders |-> "down"]

\* defect: the slots are told to end, once, and not waited for
ShutdownOnce ==
    /\ stage = "slots"
    /\ detached' = detached \cup {delivered[i] : i \in Listed}
    /\ stage' = After[stage]
    /\ UNCHANGED <<patient, hubVars, wireVars, tcp, slot, silent>>

\* task_slot::shutdown.  The loop that it runs are the other actions here.
Detach(t) == detached' = detached \cup {t}

\* task_slots::shutdown: as long as there is a slot, the first one is told to
\* end
ShutdownSlots ==
    /\ stage = "slots"
    /\ \/ /\ Listed = {}
          /\ stage' = After[stage]
          /\ UNCHANGED detached
       \/ \E i \in Listed :
             /\ \A j \in Listed : i <= j
             /\ Detach(delivered[i])
             /\ UNCHANGED stage
    /\ UNCHANGED <<patient, hubVars, wireVars, tcp, slot, silent>>

\* The shutdown of pctx, fctx and folctx, if it returns: AsyncStorage, Proc and
\* Folders show when it does, and it may not.
ShutdownComponent ==
    /\ stage \in {"procs", "files", "folders"}
    /\ stage' = After[stage]
    /\ UNCHANGED <<patient, hubVars, wireVars, tcp, slot, detached, silent>>

-----------------------------------------------------------------------------
HubStep ==
    \/ Accept \/ HubRead \/ HubEof \/ RemoveClient
    \/ \E t \in Txn : Transact(t) \/ TransactFails(t) \/ Resume(t)

UnitStep ==
    \/ UnitRead \/ Tick \/ ClientEof \/ Stop \/ ShutdownSlots \/ ShutdownComponent
    \/ \E t \in Txn : Answer(t) \/ EndSilently(t)

Next == HubStep \/ UnitStep

Spec == Init /\ [][Next]_vars

\* What is sent arrives, both loops run, handlers end (see the properties of
\* FileTransfer, Proc and Folders) and an end of the connection is noticed.
\* Nothing says that the shutdown of a component returns.
Fairness ==
    /\ WF_vars(Accept) /\ WF_vars(RemoveClient)
    /\ WF_vars(HubRead) /\ WF_vars(UnitRead)
    /\ WF_vars(HubEof /\ tcp # "open")
    /\ \A t \in Txn : WF_vars(Resume(t)) /\ WF_vars(Answer(t) \/ EndSilently(t))
    /\ WF_vars(Tick) /\ WF_vars(ShutdownSlots)

FairSpec == Spec /\ Fairness

-----------------------------------------------------------------------------
\* The frames carry no number that the hub compares: a reply is for whoever
\* waits.  If the hub has one transaction at a time each gets its own reply,
\* though handlers can end without one (server.hpp:46-57; hub/main.cpp:33-45).
OwnReply ==
    patient => \A t \in Txn : reply[t] \in {t, Error}

\* The components of the unit are shut down when no handler of a request is
\* left that could use them (unit.hpp:33-40; task.hpp:143-150).
HandlersEndFirst ==
    stage \in {"procs", "files", "folders", "down"} =>
        \A t \in Txn : slot[t] \notin {"running", "over"}

\* The slot of a request is freed, unless the unit aborts.  The only slots that
\* are not are those that were told to shut down before they had finished, and
\* these hold the shutdown of the unit for ever (task.hpp:112-137, 211-225).
SlotsAreFreed ==
    \A t \in Txn :
        slot[t] = "running" ~> \/ slot[t] = "freed" \/ tcp = "aborted"
                               \/ [](slot[t] = "over" /\ stage = "slots")

\* A transaction ends, however many overlap, unless its client is gone or its
\* request got no reply (server.hpp:52-56; unit.hpp:367-404).
TransactionsEnd ==
    \A t \in Txn :
        txn[t] = "waiting" ~> txn[t] = "ended" \/ client # "open" \/ t \in silent
=============================================================================
