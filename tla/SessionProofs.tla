--------------------------- MODULE SessionProofs ---------------------------
(***************************************************************************)
(* Theorems about Session, for any number of transactions.                 *)
(***************************************************************************)
EXTENDS Session, TLAPS

\* What was delivered to the unit is the beginning of what was sent to it.
Prefixed ==
    /\ Len(delivered) <= Len(requests)
    /\ \A i \in 1..Len(delivered) : delivered[i] = requests[i]
    /\ Len(received) <= Len(replies)

\* A slot belongs to a request that was delivered, a request to a transaction
\* that has begun, and each request is answered at most once.
SlotInv ==
    /\ \A t \in Txn : slot[t] # "none" => t \in In(delivered)
    /\ \A t \in Txn : t \in In(requests) => txn[t] # "new"
    /\ \A t \in Txn : t \in In(replies) => slot[t] \notin {"none", "running"}
    /\ \A i, j \in 1..Len(replies) : replies[i] = replies[j] => i = j

Active(t) == txn[t] \in {"waiting", "replied"}

\* With a patient hub there is one transaction at a time; whatever is on its
\* way, in either direction, is that transaction's, which still waits for it.
OneInv ==
    patient =>
        /\ \A t, u \in Txn : Active(t) /\ Active(u) => t = u
        /\ \A t \in Txn :
             t \in In(requests) /\ slot[t] \in {"none", "running"} => txn[t] = "waiting"
        /\ \A i \in Len(received) + 1..Len(replies) : txn[replies[i]] = "waiting"
        /\ \A t \in Txn : reply[t] \in {t, Error}

StageInv ==
    /\ stage # "none" => tcp = "closed"
    /\ HandlersEndFirst

IInv == TypeOK /\ Prefixed /\ SlotInv /\ OneInv /\ StageInv

-----------------------------------------------------------------------------
\* Sequences.

LEMMA InAppend ==
    ASSUME NEW q \in Seq(Txn), NEW t \in Txn
    PROVE  In(Append(q, t)) = In(q) \cup {t}
<1>1. /\ Len(Append(q, t)) = Len(q) + 1
      /\ \A i \in 1..Len(q) : Append(q, t)[i] = q[i]
      /\ Append(q, t)[Len(q) + 1] = t
  OBVIOUS
<1>2. /\ DOMAIN q = 1..Len(q) /\ Len(q) \in Nat
      /\ DOMAIN Append(q, t) = 1..(Len(q) + 1)
  OBVIOUS
<1> QED BY <1>1, <1>2 DEF In

LEMMA BeginningOf ==
    ASSUME NEW q \in Seq(Txn), NEW k \in 0..Len(q)
    PROVE  /\ SubSeq(q, 1, k) \in Seq(Txn)
           /\ Len(SubSeq(q, 1, k)) = k
           /\ \A i \in 1..k : SubSeq(q, 1, k)[i] = q[i]
OBVIOUS

LEMMA InPlaces ==
    ASSUME NEW q \in Seq(Txn), NEW t
    PROVE  t \in In(q) <=> \E i \in 1..Len(q) : q[i] = t
BY DEF In

\* what was delivered was sent
LEMMA DeliveredWasSent ==
    ASSUME TypeOK, Prefixed, NEW t \in In(delivered)
    PROVE  t \in In(requests)
<1>1. requests \in Seq(Txn) /\ delivered \in Seq(Txn)
  BY DEF TypeOK
<1>2. PICK i \in 1..Len(delivered) : delivered[i] = t
  BY <1>1, InPlaces
<1>3. i \in 1..Len(requests) /\ requests[i] = t
  BY <1>1, <1>2 DEF Prefixed
<1> QED BY <1>1, <1>3, InPlaces

LEMMA InitIInv == Init => IInv
<1> SUFFICES ASSUME Init PROVE IInv
  OBVIOUS
<1>1. TypeOK
  BY DEF Init, TypeOK, ToUnit!Init, ToHub!Init, Stages
<1>2. requests = <<>> /\ delivered = <<>> /\ replies = <<>> /\ received = <<>>
  BY DEF Init, ToUnit!Init, ToHub!Init
<1>3. Prefixed /\ SlotInv
  BY <1>2 DEF Init, Prefixed, SlotInv, In
<1>4. OneInv
  BY <1>2 DEF Init, OneInv, In, Active
<1>5. StageInv
  BY DEF Init, StageInv, HandlersEndFirst
<1> QED BY <1>1, <1>3, <1>4, <1>5 DEF IInv

-----------------------------------------------------------------------------
\* Steps of the hub.

LEMMA AcceptStep == ASSUME IInv, Accept PROVE IInv'
BY DEF IInv, Accept, TypeOK, Prefixed, SlotInv, OneInv, StageInv, HandlersEndFirst,
       Active, wireVars, unitVars, In

LEMMA HubEofStep == ASSUME IInv, HubEof PROVE IInv'
BY DEF IInv, HubEof, TypeOK, Prefixed, SlotInv, OneInv, StageInv, HandlersEndFirst,
       Active, wireVars, unitVars, In

LEMMA RemoveClientStep == ASSUME IInv, RemoveClient PROVE IInv'
BY DEF IInv, RemoveClient, TypeOK, Prefixed, SlotInv, OneInv, StageInv, HandlersEndFirst,
       Active, wireVars, unitVars, In

LEMMA TransactStep == ASSUME IInv, NEW t \in Txn, Transact(t) PROVE IInv'
<1>1. /\ txn[t] = "new"
      /\ patient => \A u \in Txn : txn[u] \in {"new", "ended"}
      /\ txn' = [txn EXCEPT ![t] = "waiting"]
      /\ requests' = Append(requests, t) /\ delivered' = delivered
      /\ UNCHANGED <<patient, client, reply, replies, received, unitVars>>
  BY DEF Transact, MayStart, ToUnit!Send
<1>2. TypeOK'
  BY <1>1 DEF IInv, TypeOK, unitVars
<1>3. In(requests') = In(requests) \cup {t}
  BY <1>1, InAppend DEF IInv, TypeOK
<1>4. Prefixed'
  <2>1. requests \in Seq(Txn) /\ delivered \in Seq(Txn)
    BY DEF IInv, TypeOK
  <2>2. Len(requests') = Len(requests) + 1
        /\ \A i \in 1..Len(requests) : requests'[i] = requests[i]
    BY <1>1, <2>1
  <2> QED BY <1>1, <2>1, <2>2 DEF IInv, Prefixed
<1>5. SlotInv'
  BY <1>1, <1>3 DEF IInv, SlotInv, unitVars, In, TypeOK
<1>6. OneInv'
  <2> SUFFICES ASSUME patient PROVE OneInv'
    BY <1>1 DEF OneInv
  <2>1. \A u \in Txn : txn'[u] = IF u = t THEN "waiting" ELSE txn[u]
    BY <1>1 DEF IInv, TypeOK
  <2>2. \A u, v \in Txn : Active(u)' /\ Active(v)' => u = v
    BY <1>1, <2>1 DEF Active
  <2>3. \A u \in Txn :
          u \in In(requests') /\ slot'[u] \in {"none", "running"} => txn'[u] = "waiting"
    BY <1>1, <1>3, <2>1 DEF IInv, OneInv, unitVars
  <2>4. \A i \in Len(received') + 1..Len(replies') : txn'[replies'[i]] = "waiting"
    <3> SUFFICES ASSUME NEW i \in Len(received) + 1..Len(replies)
                 PROVE  txn'[replies[i]] = "waiting"
      BY <1>1
    <3>1. replies \in Seq(Txn) /\ received \in Seq(Txn)
      BY DEF IInv, TypeOK
    <3>2. replies[i] \in Txn
      BY <3>1
    <3> QED BY <2>1, <3>2 DEF IInv, OneInv
  <2> QED BY <1>1, <2>2, <2>3, <2>4 DEF OneInv, IInv, Active
<1>7. StageInv'
  BY <1>1 DEF IInv, StageInv, HandlersEndFirst, unitVars
<1> QED BY <1>2, <1>4, <1>5, <1>6, <1>7 DEF IInv
LEMMA TransactFailsStep == ASSUME IInv, NEW t \in Txn, TransactFails(t) PROVE IInv'
<1>1. /\ txn[t] = "new"
      /\ patient => \A u \in Txn : txn[u] \in {"new", "ended"}
      /\ txn' = [u \in Txn |-> IF u \in Waiting \cup {t} THEN "replied" ELSE txn[u]]
      /\ reply' = [u \in Txn |-> IF u \in Waiting \cup {t} THEN Error ELSE reply[u]]
      /\ UNCHANGED <<patient, client, wireVars, unitVars>>
  BY DEF TransactFails, MayStart, Complete
<1>2. TypeOK'
  BY <1>1 DEF IInv, TypeOK, unitVars, wireVars
<1>3. Prefixed' /\ SlotInv'
  BY <1>1 DEF IInv, Prefixed, SlotInv, unitVars, wireVars, In, Waiting
<1>4. OneInv'
  <2> SUFFICES ASSUME patient PROVE OneInv'
    BY <1>1 DEF OneInv
  <2>1. Waiting = {}
    BY <1>1 DEF Waiting
  <2>2. \A u \in Txn : txn'[u] = IF u = t THEN "replied" ELSE txn[u]
    BY <1>1, <2>1
  <2>3. \A u, v \in Txn : Active(u)' /\ Active(v)' => u = v
    BY <1>1, <2>2 DEF Active
  <2>4. t \notin In(requests)
    BY <1>1 DEF IInv, SlotInv
  <2>5. \A u \in Txn :
          u \in In(requests) /\ slot[u] \in {"none", "running"} => txn'[u] = "waiting"
    BY <2>2, <2>4 DEF IInv, OneInv
  <2>6. \A i \in Len(received) + 1..Len(replies) : txn'[replies[i]] = "waiting"
    <3> SUFFICES ASSUME NEW i \in Len(received) + 1..Len(replies) PROVE FALSE
      OBVIOUS
    <3>1. replies \in Seq(Txn) /\ received \in Seq(Txn)
      BY DEF IInv, TypeOK
    <3>2. replies[i] \in Txn /\ txn[replies[i]] = "waiting"
      BY <3>1 DEF IInv, OneInv
    <3> QED BY <1>1, <3>2
  <2>7. \A u \in Txn : reply'[u] \in {u, Error}
    BY <1>1, <2>1 DEF IInv, OneInv
  <2>8. UNCHANGED <<patient, requests, replies, received, slot>> /\ In(requests)' = In(requests)
    BY <1>1 DEF wireVars, unitVars, In
  <2> QED BY <2>3, <2>5, <2>6, <2>7, <2>8 DEF OneInv
<1>5. StageInv'
  BY <1>1 DEF IInv, StageInv, HandlersEndFirst, unitVars
<1> QED BY <1>2, <1>3, <1>4, <1>5 DEF IInv

LEMMA ResumeStep == ASSUME IInv, NEW t \in Txn, Resume(t) PROVE IInv'
<1>1. /\ txn[t] = "replied"
      /\ txn' = [txn EXCEPT ![t] = "ended"]
      /\ UNCHANGED <<patient, client, reply, wireVars, unitVars>>
  BY DEF Resume
<1>2. TypeOK'
  BY <1>1 DEF IInv, TypeOK, unitVars, wireVars
<1>3. \A u \in Txn : txn'[u] = IF u = t THEN "ended" ELSE txn[u]
  BY <1>1 DEF IInv, TypeOK
<1>4. Prefixed' /\ SlotInv'
  BY <1>1, <1>3 DEF IInv, Prefixed, SlotInv, unitVars, wireVars, In
<1>5. OneInv'
  <2>1. \A i \in Len(received) + 1..Len(replies) : replies[i] \in Txn
    BY DEF IInv, TypeOK
  <2> QED BY <1>1, <1>3, <2>1 DEF IInv, OneInv, unitVars, wireVars, In, Active
<1>6. StageInv'
  BY <1>1 DEF IInv, StageInv, HandlersEndFirst, unitVars
<1> QED BY <1>2, <1>4, <1>5, <1>6 DEF IInv

LEMMA HubReadStep == ASSUME IInv, HubRead PROVE IInv'
<1> DEFINE given == Waiting \cup {t \in Txn : txn[t] = "replied" /\ reply[t] # Error}
<1>1. PICK k \in Len(received) + 1..Len(replies) :
        received' = SubSeq(replies, 1, k) /\ replies' = replies
  BY DEF HubRead, ToHub!Deliver
<1>2. /\ txn' = [t \in Txn |-> IF t \in given THEN "replied" ELSE txn[t]]
      /\ reply' = [t \in Txn |-> IF t \in given THEN replies[Len(received')] ELSE reply[t]]
      /\ UNCHANGED <<patient, client, requests, delivered, unitVars>>
  BY DEF HubRead, Complete
<1> HIDE DEF given
<1>3. replies \in Seq(Txn) /\ received \in Seq(Txn) /\ k \in 0..Len(replies)
  BY <1>1 DEF IInv, TypeOK, Prefixed
<1>4. received' \in Seq(Txn) /\ Len(received') = k /\ replies[k] \in Txn
  BY <1>1, <1>3, BeginningOf
<1>5. TypeOK'
  BY <1>1, <1>2, <1>4 DEF IInv, TypeOK, unitVars
<1>6. given \subseteq {t \in Txn : Active(t)}
  BY DEF given, Waiting, Active
<1>7. Prefixed'
  BY <1>1, <1>2, <1>3, <1>4 DEF IInv, Prefixed
<1>8. SlotInv'
  BY <1>1, <1>2, <1>6 DEF IInv, SlotInv, unitVars, In, Active
<1>9. OneInv'
  <2> SUFFICES ASSUME patient PROVE OneInv'
    BY <1>2 DEF OneInv
  <2> DEFINE o == replies[k]
  <2>1. o \in Txn /\ txn[o] = "waiting" /\ k \in 1..Len(replies)
    BY <1>1, <1>3, <1>4 DEF IInv, OneInv
  <2> HIDE DEF o
  <2>2. \A t \in Txn : Active(t) => t = o
    BY <2>1 DEF IInv, OneInv, Active
  <2>3. given = {o}
    BY <1>6, <2>1, <2>2 DEF given, Waiting
  <2>4. /\ \A t \in Txn : txn'[t] = IF t = o THEN "replied" ELSE txn[t]
        /\ \A t \in Txn : reply'[t] = IF t = o THEN o ELSE reply[t]
    BY <1>2, <1>4, <2>3 DEF o
  <2>5. \A t, u \in Txn : Active(t)' /\ Active(u)' => t = u
    BY <2>2, <2>4 DEF Active
  <2>6. o \in In(replies)
    BY <1>3, <2>1, InPlaces DEF o
  <2>7. slot[o] \notin {"none", "running"}
    BY <2>1, <2>6 DEF IInv, SlotInv
  <2>8. \A t \in Txn :
          t \in In(requests) /\ slot[t] \in {"none", "running"} => txn'[t] = "waiting"
    BY <2>4, <2>7 DEF IInv, OneInv
  <2>9. \A i \in k + 1..Len(replies) : txn'[replies[i]] = "waiting"
    <3> SUFFICES ASSUME NEW i \in k + 1..Len(replies) PROVE FALSE
      OBVIOUS
    <3>1. i \in Len(received) + 1..Len(replies) /\ i \in 1..Len(replies) /\ i # k
      BY <1>1, <1>3
    <3>2. replies[i] \in Txn /\ txn[replies[i]] = "waiting"
      BY <1>3, <3>1 DEF IInv, OneInv
    <3>3. replies[i] = replies[k]
      BY <2>2, <3>2 DEF Active, o
    <3> QED BY <2>1, <3>1, <3>3 DEF IInv, SlotInv
  <2>10. \A t \in Txn : reply'[t] \in {t, Error}
    BY <2>4 DEF IInv, OneInv
  <2>11. UNCHANGED <<patient, requests, replies, slot>> /\ In(requests)' = In(requests)
    BY <1>1, <1>2 DEF unitVars, In
  <2> QED BY <1>4, <2>5, <2>8, <2>9, <2>10, <2>11 DEF OneInv
<1>10. StageInv'
  BY <1>2 DEF IInv, StageInv, HandlersEndFirst, unitVars
<1> QED BY <1>5, <1>7, <1>8, <1>9, <1>10 DEF IInv

-----------------------------------------------------------------------------
\* Steps of the unit.

LEMMA UnitReadStep == ASSUME IInv, UnitRead PROVE IInv'
<1>1. PICK k \in Len(delivered) + 1..Len(requests) :
        delivered' = SubSeq(requests, 1, k) /\ requests' = requests
  BY DEF UnitRead, ToUnit!Deliver
<1>2. PICK dropped \in SUBSET (In(delivered') \ In(delivered)) :
        /\ slot' = [t \in Txn |-> IF t \in In(delivered') /\ t \notin In(delivered) \cup dropped
                                  THEN "running" ELSE slot[t]]
        /\ silent' = silent \cup dropped
        /\ tcp = "open"
        /\ UNCHANGED <<patient, hubVars, replies, received, tcp, detached, stage>>
  BY DEF UnitRead
<1>3. requests \in Seq(Txn) /\ delivered \in Seq(Txn) /\ k \in 0..Len(requests)
  BY <1>1 DEF IInv, TypeOK, Prefixed
<1>4. /\ delivered' \in Seq(Txn) /\ Len(delivered') = k
      /\ \A i \in 1..k : delivered'[i] = requests[i]
  BY <1>1, <1>3, BeginningOf
<1>5. TypeOK'
  <2>1. dropped \subseteq Txn
    BY <1>2, <1>4 DEF In
  <2>2. slot' \in [Txn -> {"none", "running", "over", "finished", "freed"}]
    BY <1>2 DEF IInv, TypeOK
  <2>3. silent' \subseteq Txn
    BY <1>2, <2>1 DEF IInv, TypeOK
  <2> QED BY <1>1, <1>2, <1>4, <2>2, <2>3 DEF IInv, TypeOK, hubVars
<1>6. Prefixed'
  BY <1>1, <1>2, <1>3, <1>4 DEF IInv, Prefixed
<1>7. \A t \in Txn : t \in In(delivered) => t \in In(delivered')
  <2> SUFFICES ASSUME NEW t \in Txn, t \in In(delivered) PROVE t \in In(delivered')
    OBVIOUS
  <2>1. PICK i \in 1..Len(delivered) : delivered[i] = t
    BY <1>3, InPlaces
  <2>2. i \in 1..Len(delivered') /\ delivered'[i] = t
    BY <1>1, <1>3, <1>4, <2>1 DEF IInv, Prefixed
  <2> QED BY <1>4, <2>2, InPlaces
<1>8. \A t \in Txn : t \in In(delivered') => t \in In(requests)
  <2> SUFFICES ASSUME NEW t \in Txn, t \in In(delivered') PROVE t \in In(requests)
    OBVIOUS
  <2>1. PICK i \in 1..k : delivered'[i] = t
    BY <1>4, InPlaces
  <2>2. i \in 1..Len(requests) /\ requests[i] = t
    BY <1>3, <1>4, <2>1
  <2> QED BY <1>3, <2>2, InPlaces
<1>9. \A t \in Txn : slot'[t] # slot[t] =>
        t \in In(delivered') /\ slot[t] = "none" /\ slot'[t] = "running"
  BY <1>2 DEF IInv, SlotInv
<1>10. SlotInv'
  <2>1. \A t \in Txn : slot'[t] # "none" => t \in In(delivered')
    BY <1>7, <1>9 DEF IInv, SlotInv
  <2>2. \A t \in Txn : t \in In(replies) => slot'[t] \notin {"none", "running"}
    BY <1>9 DEF IInv, SlotInv
  <2>3. UNCHANGED <<requests, replies, txn>> /\ In(delivered)' = In(delivered')
        /\ In(replies)' = In(replies) /\ In(requests)' = In(requests)
    BY <1>1, <1>2 DEF In, hubVars
  <2> QED BY <2>1, <2>2, <2>3 DEF IInv, SlotInv
<1>11. OneInv'
  <2>1. UNCHANGED <<patient, requests, replies, received, txn, reply>>
        /\ In(requests)' = In(requests)
    BY <1>1, <1>2 DEF In, hubVars
  <2>2. \A t \in Txn : slot'[t] \in {"none", "running"} => slot[t] \in {"none", "running"}
    BY <1>9
  <2> QED BY <2>1, <2>2 DEF IInv, OneInv, Active
<1>12. StageInv'
  BY <1>2 DEF IInv, StageInv, HandlersEndFirst
<1> QED BY <1>5, <1>6, <1>10, <1>11, <1>12 DEF IInv

\* The handler of a running request ends: it is, under a patient hub, that of
\* the transaction that waits.
LEMMA FinishedStep ==
    ASSUME IInv, NEW t \in Txn, slot[t] = "running", Finished(t), stage' = stage
    PROVE  /\ slot' \in [Txn -> {"none", "running", "over", "finished", "freed"}]
           /\ slot'[t] \in {"over", "finished"}
           /\ \A u \in Txn : u # t => slot'[u] = slot[u]
           /\ t \in In(delivered) /\ t \in In(requests) /\ t \notin In(replies)
           /\ patient => txn[t] = "waiting"
           /\ HandlersEndFirst'
<1>1. slot' = [slot EXCEPT ![t] = IF t \in detached THEN "over" ELSE "finished"]
  BY DEF Finished
<1>2. slot \in [Txn -> {"none", "running", "over", "finished", "freed"}]
  BY DEF IInv, TypeOK
<1>3. t \in In(delivered) /\ t \notin In(replies)
  BY DEF IInv, SlotInv
<1>4. t \in In(requests)
  BY <1>3, DeliveredWasSent DEF IInv
<1>5. patient => txn[t] = "waiting"
  BY <1>4 DEF IInv, OneInv
<1>6. HandlersEndFirst'
  <2>1. stage \notin {"procs", "files", "folders", "down"}
    BY DEF IInv, StageInv, HandlersEndFirst
  <2> QED BY <2>1 DEF HandlersEndFirst
<1> QED BY <1>1, <1>2, <1>3, <1>4, <1>5, <1>6

LEMMA AnswerStep == ASSUME IInv, NEW t \in Txn, Answer(t) PROVE IInv'
<1>1. /\ slot[t] = "running" /\ Finished(t)
      /\ replies' = Append(replies, t) /\ received' = received
      /\ UNCHANGED <<patient, hubVars, requests, delivered, tcp, detached, silent, stage>>
  BY DEF Answer, ToHub!Send
<1>2. /\ slot' \in [Txn -> {"none", "running", "over", "finished", "freed"}]
      /\ slot'[t] \in {"over", "finished"}
      /\ \A u \in Txn : u # t => slot'[u] = slot[u]
      /\ t \in In(delivered) /\ t \in In(requests) /\ t \notin In(replies)
      /\ patient => txn[t] = "waiting"
      /\ HandlersEndFirst'
  BY <1>1, FinishedStep
<1>3. replies \in Seq(Txn) /\ received \in Seq(Txn)
  BY DEF IInv, TypeOK
<1>4. In(replies') = In(replies) \cup {t}
  BY <1>1, <1>3, InAppend
<1>5. /\ replies' \in Seq(Txn) /\ Len(replies') = Len(replies) + 1
      /\ \A i \in 1..Len(replies) : replies'[i] = replies[i]
      /\ replies'[Len(replies) + 1] = t
  BY <1>1, <1>3
<1>6. TypeOK'
  BY <1>1, <1>2, <1>5 DEF IInv, TypeOK, hubVars
<1>7. Prefixed'
  BY <1>1, <1>3, <1>5 DEF IInv, Prefixed
<1>8. SlotInv'
  <2>1. UNCHANGED <<requests, delivered, txn>> /\ In(requests)' = In(requests)
        /\ In(delivered)' = In(delivered) /\ In(replies)' = In(replies')
    BY <1>1 DEF In, hubVars
  <2>2. \A u \in Txn : slot'[u] # "none" => u \in In(delivered)
    BY <1>2 DEF IInv, SlotInv
  <2>3. \A u \in Txn : u \in In(replies') => slot'[u] \notin {"none", "running"}
    BY <1>2, <1>4 DEF IInv, SlotInv
  <2>4. \A i \in 1..Len(replies) : replies[i] # t
    BY <1>2, <1>3, InPlaces
  <2>5. \A i, j \in 1..Len(replies') : replies'[i] = replies'[j] => i = j
    <3> SUFFICES ASSUME NEW i \in 1..Len(replies'), NEW j \in 1..Len(replies'),
                        replies'[i] = replies'[j]
                 PROVE  i = j
      OBVIOUS
    <3>1. /\ i \in 1..Len(replies) \/ i = Len(replies) + 1
          /\ j \in 1..Len(replies) \/ j = Len(replies) + 1
      BY <1>3, <1>5
    <3> QED BY <1>5, <2>4, <3>1 DEF IInv, SlotInv
  <2> QED BY <2>1, <2>2, <2>3, <2>5 DEF IInv, SlotInv
<1>9. OneInv'
  <2>1. UNCHANGED <<patient, requests, received, txn, reply>> /\ In(requests)' = In(requests)
    BY <1>1 DEF In, hubVars
  <2>2. \A u \in Txn : slot'[u] \in {"none", "running"} => slot[u] \in {"none", "running"}
    BY <1>2
  <2>3. patient => \A i \in Len(received) + 1..Len(replies') : txn[replies'[i]] = "waiting"
    <3> SUFFICES ASSUME patient, NEW i \in Len(received) + 1..Len(replies')
                 PROVE  txn[replies'[i]] = "waiting"
      OBVIOUS
    <3>1. i \in Len(received) + 1..Len(replies) \/ i = Len(replies) + 1
      BY <1>3, <1>5
    <3>2. CASE i = Len(replies) + 1
      BY <1>2, <1>5, <3>2
    <3>3. CASE i \in Len(received) + 1..Len(replies)
      <4>1. i \in 1..Len(replies)
        BY <1>3, <3>3
      <4> QED BY <1>5, <3>3, <4>1 DEF IInv, OneInv
    <3> QED BY <3>1, <3>2, <3>3
  <2> QED BY <2>1, <2>2, <2>3 DEF IInv, OneInv, Active
<1>10. StageInv'
  BY <1>1, <1>2 DEF IInv, StageInv
<1> QED BY <1>6, <1>7, <1>8, <1>9, <1>10 DEF IInv

LEMMA EndSilentlyStep == ASSUME IInv, NEW t \in Txn, EndSilently(t) PROVE IInv'
<1>1. /\ slot[t] = "running" /\ Finished(t) /\ silent' = silent \cup {t}
      /\ UNCHANGED <<patient, hubVars, wireVars, tcp, detached, stage>>
  BY DEF EndSilently
<1>2. /\ slot' \in [Txn -> {"none", "running", "over", "finished", "freed"}]
      /\ slot'[t] \in {"over", "finished"}
      /\ \A u \in Txn : u # t => slot'[u] = slot[u]
      /\ t \in In(delivered)
      /\ HandlersEndFirst'
  BY <1>1, FinishedStep
<1>3. TypeOK'
  BY <1>1, <1>2 DEF IInv, TypeOK, hubVars, wireVars
<1>4. Prefixed' /\ SlotInv'
  BY <1>1, <1>2 DEF IInv, Prefixed, SlotInv, hubVars, wireVars, In
<1>5. OneInv'
  BY <1>1, <1>2 DEF IInv, OneInv, hubVars, wireVars, In, Active
<1>6. StageInv'
  BY <1>1, <1>2 DEF IInv, StageInv
<1> QED BY <1>3, <1>4, <1>5, <1>6 DEF IInv

LEMMA TickStep == ASSUME IInv, Tick PROVE IInv'
<1>1. /\ slot' = [t \in Txn |-> IF slot[t] = "finished" THEN "freed" ELSE slot[t]]
      /\ UNCHANGED <<patient, hubVars, wireVars, tcp, detached, silent, stage>>
  BY DEF Tick
<1>2. TypeOK'
  BY <1>1 DEF IInv, TypeOK, hubVars, wireVars
<1>3. Prefixed' /\ SlotInv'
  BY <1>1 DEF IInv, Prefixed, SlotInv, hubVars, wireVars, In
<1>4. OneInv' /\ StageInv'
  BY <1>1 DEF IInv, OneInv, StageInv, HandlersEndFirst, hubVars, wireVars, In, Active
<1> QED BY <1>2, <1>3, <1>4 DEF IInv

LEMMA ClientEofStep == ASSUME IInv, ClientEof PROVE IInv'
BY DEF IInv, ClientEof, TypeOK, Prefixed, SlotInv, OneInv, StageInv, HandlersEndFirst,
       Active, hubVars, wireVars, In

LEMMA StopStep == ASSUME IInv, Stop PROVE IInv'
BY DEF IInv, Stop, TypeOK, Prefixed, SlotInv, OneInv, StageInv, HandlersEndFirst,
       Active, hubVars, wireVars, In, Stages

\* The stage changes, and no slot is left when the slots are done with.
LEMMA StageStep ==
    ASSUME IInv, stage # "none", stage' \in Stages, detached' \subseteq Txn,
           stage' # "slots" => \A t \in Txn : slot[t] \notin {"running", "over"},
           UNCHANGED <<patient, hubVars, wireVars, tcp, slot, silent>>
    PROVE  IInv'
<1>1. TypeOK'
  BY DEF IInv, TypeOK, hubVars, wireVars
<1>2. Prefixed' /\ SlotInv' /\ OneInv'
  BY DEF IInv, Prefixed, SlotInv, OneInv, hubVars, wireVars, In, Active
<1>3. StageInv'
  BY DEF IInv, StageInv, HandlersEndFirst, TypeOK
<1> QED BY <1>1, <1>2, <1>3 DEF IInv

LEMMA ShutdownSlotsStep == ASSUME IInv, ShutdownSlots PROVE IInv'
<1>1. stage = "slots" /\ UNCHANGED <<patient, hubVars, wireVars, tcp, slot, silent>>
  BY DEF ShutdownSlots
<1>2. delivered \in Seq(Txn) /\ detached \subseteq Txn
  BY DEF IInv, TypeOK
<1>3. CASE Listed = {} /\ stage' = After[stage] /\ UNCHANGED detached
  <2>1. stage' = "procs"
    BY <1>1, <1>3 DEF After
  <2>2. \A t \in Txn : slot[t] \notin {"running", "over"}
    <3> SUFFICES ASSUME NEW t \in Txn, slot[t] \in {"running", "over"} PROVE FALSE
      OBVIOUS
    <3>1. t \in In(delivered)
      BY DEF IInv, SlotInv
    <3>2. PICK i \in 1..Len(delivered) : delivered[i] = t
      BY <1>2, <3>1, InPlaces
    <3>3. i \in Listed
      BY <1>2, <3>2 DEF Listed
    <3> QED BY <1>3, <3>3
  <2> QED BY <1>1, <1>2, <1>3, <2>1, <2>2, StageStep DEF Stages
<1>4. CASE \E i \in Listed : Detach(delivered[i]) /\ UNCHANGED stage
  <2>1. PICK i \in DOMAIN delivered : detached' = detached \cup {delivered[i]}
    BY <1>4 DEF Listed, Detach
  <2>2. delivered[i] \in Txn
    BY <1>2, <2>1
  <2> QED BY <1>1, <1>2, <1>4, <2>1, <2>2, StageStep DEF Stages
<1> QED BY <1>3, <1>4 DEF ShutdownSlots

LEMMA ShutdownComponentStep == ASSUME IInv, ShutdownComponent PROVE IInv'
<1>1. /\ stage \in {"procs", "files", "folders"} /\ stage' = After[stage]
      /\ UNCHANGED <<patient, hubVars, wireVars, tcp, slot, detached, silent>>
  BY DEF ShutdownComponent
<1>2. stage' \in {"files", "folders", "down"}
  BY <1>1 DEF After
<1>3. \A t \in Txn : slot[t] \notin {"running", "over"}
  BY <1>1 DEF IInv, StageInv, HandlersEndFirst
<1>4. detached' \subseteq Txn
  BY <1>1 DEF IInv, TypeOK
<1> QED BY <1>1, <1>2, <1>3, <1>4, StageStep DEF Stages

LEMMA StutterStep == ASSUME IInv, UNCHANGED vars PROVE IInv'
BY DEF IInv, vars, TypeOK, Prefixed, SlotInv, OneInv, StageInv, HandlersEndFirst,
       Active, hubVars, wireVars, unitVars, In

LEMMA NextIInv == ASSUME IInv, [Next]_vars PROVE IInv'
<1>1. CASE HubStep
  BY <1>1, AcceptStep, HubReadStep, HubEofStep, RemoveClientStep, TransactStep,
     TransactFailsStep, ResumeStep DEF HubStep
<1>2. CASE UnitStep
  BY <1>2, UnitReadStep, TickStep, ClientEofStep, StopStep, ShutdownSlotsStep,
     ShutdownComponentStep, AnswerStep, EndSilentlyStep DEF UnitStep
<1> QED BY <1>1, <1>2, StutterStep DEF Next

THEOREM Invariance == Spec => []IInv
BY InitIInv, NextIInv, PTL DEF Spec

-----------------------------------------------------------------------------
\* The state of hub, connection and unit keeps its types (server.hpp, task.hpp).
THEOREM TypeCorrect == Spec => []TypeOK
<1>1. IInv => TypeOK
  BY DEF IInv
<1> QED BY <1>1, Invariance, PTL

\* Hub and unit use the connection as two channels, one in each direction, also
\* when it breaks and while they shut down, and Link implements a channel: what
\* is shown here holds over the bytes of TCP (server.hpp:91-109, client.hpp:21-24).
THEOREM UsesChannels == Spec => ToUnit!Spec /\ ToHub!Spec
<1>1. Init => ToUnit!Init /\ ToHub!Init
  BY DEF Init
<1>2. [Next]_vars => [ToUnit!Next]_(ToUnit!channelVars) /\ [ToHub!Next]_(ToHub!channelVars)
  <2> SUFFICES ASSUME Next \/ UNCHANGED vars
               PROVE  /\ ToUnit!Next \/ UNCHANGED ToUnit!channelVars
                      /\ ToHub!Next \/ UNCHANGED ToHub!channelVars
    OBVIOUS
  <2>1. ASSUME HubStep \/ UNCHANGED vars
        PROVE  /\ ToUnit!Next \/ UNCHANGED <<requests, delivered>>
               /\ ToHub!Next \/ UNCHANGED <<replies, received>>
    BY <2>1 DEF HubStep, Accept, HubRead, HubEof, RemoveClient, Transact, TransactFails,
       Resume, vars, wireVars, ToUnit!Next, ToUnit!Send, ToHub!Next, ToHub!Deliver
  <2>2. ASSUME UnitStep
        PROVE  /\ ToUnit!Next \/ UNCHANGED <<requests, delivered>>
               /\ ToHub!Next \/ UNCHANGED <<replies, received>>
    BY <2>2 DEF UnitStep, UnitRead, Tick, ClientEof, Stop, ShutdownSlots,
       ShutdownComponent, Answer, EndSilently, wireVars,
       ToUnit!Next, ToUnit!Deliver, ToHub!Next, ToHub!Send
  <2> QED
    BY <2>1, <2>2 DEF Next, ToUnit!channelVars, ToHub!channelVars
<1> QED
  BY <1>1, <1>2, PTL DEF Spec, ToUnit!Spec, ToHub!Spec

\* A patient hub gives every transaction its own reply or an error, whatever
\* handlers end silently, sends fail and connections break
\* (server.hpp:46-57; hub/main.cpp:33-45).
THEOREM RepliesAreOwn == Spec => []OwnReply
<1>1. IInv => OwnReply
  BY DEF IInv, OneInv, OwnReply
<1> QED BY <1>1, Invariance, PTL

\* No component of the unit is shut down while a handler is left that could
\* use it (unit.hpp:33-40).
THEOREM ShutdownIsOrdered == Spec => []HandlersEndFirst
<1>1. IInv => HandlersEndFirst
  BY DEF IInv, StageInv
<1> QED BY <1>1, Invariance, PTL
=============================================================================
