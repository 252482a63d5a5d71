-------------------------- MODULE SenderFifoProofs --------------------------
(***************************************************************************)
(* Proofs about SenderFifo: mutual exclusion, no stranded operation, and   *)
(* that it implements SenderLine, for any fifos and operations.            *)
(***************************************************************************)
EXTENDS SenderFifo, SequenceTheorems, TLAPS

\* The list of a fifo holds operations that wait on it, each once.
WaitersWait ==
    /\ \A f \in Fifo : \A i \in 1..Len(waiters[f]) :
         state[waiters[f][i]] = "waiting" /\ core[waiters[f][i]] = f
    /\ \A f \in Fifo : \A i, j \in 1..Len(waiters[f]) :
         waiters[f][i] = waiters[f][j] => i = j

WaitingListed ==
    \A op \in Op, f \in Fifo : state[op] = "waiting" /\ core[op] = f =>
        \E i \in 1..Len(waiters[f]) : waiters[f][i] = op

CurrentRuns ==
    /\ \A f \in Fifo : current[f] # Null =>
         state[current[f]] = "running" /\ core[current[f]] = f
    /\ \A op \in Op : state[op] = "running" =>
         core[op] \in Fifo /\ current[core[op]] = op

SomebodyRuns == \A f \in Fifo : waiters[f] # <<>> => current[f] # Null

FifoInv == TypeOK /\ WaitersWait /\ WaitingListed /\ CurrentRuns /\ SomebodyRuns

LEMMA FifoInit == Init => FifoInv
<1> SUFFICES ASSUME Init PROVE FifoInv
  OBVIOUS
<1>1. TypeOK
  <2>1. <<>> \in Seq(Op)
    OBVIOUS
  <2> QED
    BY <2>1 DEF Init, TypeOK
<1>2. WaitersWait /\ WaitingListed /\ CurrentRuns /\ SomebodyRuns
  BY DEF Init, WaitersWait, WaitingListed, CurrentRuns, SomebodyRuns
<1> QED
  BY <1>1, <1>2 DEF FifoInv

\* The operation takes the fifo, or goes to the end of its list.
LEMMA StartKeeps ==
  ASSUME FifoInv, NEW f \in Fifo, NEW op \in Op, Start(f, op)
  PROVE  FifoInv'
<1> USE NullOpAssumption DEF FifoInv
<1>1. /\ state[op] = "idle"
      /\ core' = [core EXCEPT ![op] = f]
  BY DEF Start
<1>2. \A g \in Fifo : /\ waiters[g] \in Seq(Op)
                      /\ Len(waiters[g]) \in Nat
                      /\ \A i \in 1..Len(waiters[g]) : waiters[g][i] \in Op \ {op}
  BY <1>1 DEF TypeOK, WaitersWait
<1>3. CASE /\ current[f] = Null
           /\ current' = [current EXCEPT ![f] = op]
           /\ state' = [state EXCEPT ![op] = "running"]
           /\ UNCHANGED waiters
  <2>1. TypeOK'
    BY <1>1, <1>3 DEF TypeOK
  <2>2. WaitersWait'
    BY <1>1, <1>2, <1>3 DEF TypeOK, WaitersWait
  <2>3. WaitingListed'
    BY <1>1, <1>3 DEF TypeOK, WaitingListed
  <2>4. CurrentRuns'
    BY <1>1, <1>3 DEF TypeOK, CurrentRuns
  <2>5. SomebodyRuns'
    BY <1>3 DEF TypeOK, SomebodyRuns
  <2> QED
    BY <2>1, <2>2, <2>3, <2>4, <2>5
<1>4. CASE /\ current[f] # Null
           /\ waiters' = [waiters EXCEPT ![f] = Append(@, op)]
           /\ state' = [state EXCEPT ![op] = "waiting"]
           /\ UNCHANGED current
  <2>1. TypeOK'
    BY <1>1, <1>4 DEF TypeOK
  <2>2. /\ waiters'[f] = Append(waiters[f], op)
        /\ Len(waiters'[f]) = Len(waiters[f]) + 1
        /\ waiters'[f][Len(waiters[f]) + 1] = op
        /\ \A i \in 1..Len(waiters[f]) : waiters'[f][i] = waiters[f][i]
        /\ \A g \in Fifo \ {f} : waiters'[g] = waiters[g]
    BY <1>2, <1>4 DEF TypeOK
  <2>3. /\ state'[op] = "waiting" /\ core'[op] = f
        /\ \A p \in Op \ {op} : state'[p] = state[p] /\ core'[p] = core[p]
    BY <1>1, <1>4 DEF TypeOK
  <2>4. WaitersWait'
    <3>1. ASSUME NEW g \in Fifo, NEW i \in 1..Len(waiters'[g])
          PROVE  state'[waiters'[g][i]] = "waiting" /\ core'[waiters'[g][i]] = g
      <4>1. CASE g = f /\ i = Len(waiters[f]) + 1
        BY <2>2, <2>3, <4>1
      <4>2. CASE ~(g = f /\ i = Len(waiters[f]) + 1)
        <5>1. i \in 1..Len(waiters[g]) /\ waiters'[g][i] = waiters[g][i]
          BY <1>2, <2>2, <4>2
        <5> QED
          BY <1>2, <2>3, <5>1 DEF WaitersWait
      <4> QED
        BY <4>1, <4>2
    <3>2. ASSUME NEW g \in Fifo, NEW i \in 1..Len(waiters'[g]),
                 NEW j \in 1..Len(waiters'[g]), waiters'[g][i] = waiters'[g][j]
          PROVE  i = j
      <4>1. CASE g = f
        <5>1. \A n \in 1..Len(waiters[f]) : waiters'[f][n] # op
          BY <1>2, <2>2
        <5>2. \A n \in 1..Len(waiters'[f]) :
                n \in 1..Len(waiters[f]) \/ n = Len(waiters[f]) + 1
          BY <1>2, <2>2
        <5>3. CASE i \in 1..Len(waiters[f]) /\ j \in 1..Len(waiters[f])
          BY <2>2, <3>2, <4>1, <5>3 DEF WaitersWait
        <5> QED
          BY <2>2, <3>2, <4>1, <5>1, <5>2, <5>3
      <4>2. CASE g # f
        BY <2>2, <3>2, <4>2 DEF WaitersWait
      <4> QED
        BY <4>1, <4>2
    <3> QED
      BY <3>1, <3>2 DEF WaitersWait
  <2>5. WaitingListed'
    <3> SUFFICES ASSUME NEW p \in Op, NEW g \in Fifo,
                        state'[p] = "waiting" /\ core'[p] = g
                 PROVE  \E i \in 1..Len(waiters'[g]) : waiters'[g][i] = p
      BY DEF WaitingListed
    <3>1. CASE p = op
      BY <1>2, <2>2, <2>3, <3>1
    <3>2. CASE p # op
      <4>1. PICK i \in 1..Len(waiters[g]) : waiters[g][i] = p
        BY <2>3, <3>2 DEF WaitingListed
      <4>2. i \in 1..Len(waiters'[g]) /\ waiters'[g][i] = p
        BY <1>2, <2>2, <4>1
      <4> QED
        BY <4>2
    <3> QED
      BY <3>1, <3>2
  <2>6. CurrentRuns'
    BY <1>1, <1>4, <2>3 DEF TypeOK, CurrentRuns
  <2>7. SomebodyRuns'
    BY <1>4, <2>2 DEF SomebodyRuns
  <2> QED
    BY <2>1, <2>4, <2>5, <2>6, <2>7
<1> QED
  BY <1>3, <1>4 DEF Start

\* The current operation ends and the first of the list, if any, follows.
LEMMA CompleteKeeps ==
  ASSUME FifoInv, NEW op \in Op, Complete(op)
  PROVE  FifoInv'
<1> USE NullOpAssumption DEF FifoInv
<1>1. PICK f \in Fifo : core[op] = f /\ current[f] = op
  BY DEF Complete, CurrentRuns
<1>2. /\ state[op] = "running"
      /\ core' = [core EXCEPT ![op] = Null]
      /\ \A p \in Op \ {op} : core'[p] = core[p]
      /\ core' \in [Op -> Fifo \cup {Null}]
  BY DEF Complete, TypeOK
<1>3. \A g \in Fifo : /\ waiters[g] \in Seq(Op)
                      /\ Len(waiters[g]) \in Nat
                      /\ \A i \in 1..Len(waiters[g]) : waiters[g][i] \in Op \ {op}
  BY <1>2 DEF TypeOK, WaitersWait
<1>4. \A g \in Fifo \ {f} : current[g] # op
  BY <1>1 DEF CurrentRuns
<1>5. CASE /\ waiters[f] = <<>>
           /\ current' = [current EXCEPT ![f] = Null]
           /\ state' = [state EXCEPT ![op] = "idle"]
           /\ UNCHANGED waiters
  <2>1. TypeOK'
    BY <1>2, <1>5 DEF TypeOK
  <2>2. WaitersWait'
    BY <1>2, <1>3, <1>5 DEF TypeOK, WaitersWait
  <2>3. WaitingListed'
    BY <1>2, <1>5 DEF TypeOK, WaitingListed
  <2>4. CurrentRuns'
    BY <1>1, <1>2, <1>4, <1>5 DEF TypeOK, CurrentRuns
  <2>5. SomebodyRuns'
    BY <1>5 DEF TypeOK, SomebodyRuns
  <2> QED
    BY <2>1, <2>2, <2>3, <2>4, <2>5
<1>6. ASSUME waiters[f] # <<>>, NEW h, h = Head(waiters[f]),
             current' = [current EXCEPT ![f] = h],
             waiters' = [waiters EXCEPT ![f] = Tail(@)],
             state' = [state EXCEPT ![op] = "idle", ![h] = "running"]
      PROVE  FifoInv'
  <2>1. /\ Len(waiters[f]) > 0
        /\ h = waiters[f][1]
        /\ waiters'[f] = Tail(waiters[f])
        /\ Len(waiters'[f]) = Len(waiters[f]) - 1
        /\ \A i \in 1..Len(waiters'[f]) : waiters'[f][i] = waiters[f][i + 1]
        /\ \A g \in Fifo \ {f} : waiters'[g] = waiters[g]
    BY <1>3, <1>6 DEF TypeOK
  <2>2. h \in Op /\ h # op /\ state[h] = "waiting" /\ core[h] = f
    BY <1>3, <2>1 DEF WaitersWait
  <2>3. /\ state'[op] = "idle" /\ state'[h] = "running"
        /\ \A p \in Op \ {op, h} : state'[p] = state[p]
    BY <1>6, <2>2 DEF TypeOK
  <2>4. TypeOK'
    <3>1. Tail(waiters[f]) \in Seq(Op)
      BY <1>3, <1>6
    <3>2. waiters' \in [Fifo -> Seq(Op)] /\ current' \in [Fifo -> Op \cup {Null}]
      BY <1>6, <2>2, <3>1 DEF TypeOK
    <3>3. state' \in [Op -> {"idle", "waiting", "running"}]
      BY <1>6, <2>2 DEF TypeOK
    <3> QED
      BY <1>2, <3>2, <3>3 DEF TypeOK
  <2>5. WaitersWait'
    <3>1. ASSUME NEW g \in Fifo, NEW i \in 1..Len(waiters'[g])
          PROVE  state'[waiters'[g][i]] = "waiting" /\ core'[waiters'[g][i]] = g
      <4>1. CASE g = f
        <5>1. i \in 1..Len(waiters'[f])
          BY <4>1
        <5>2. i + 1 \in 1..Len(waiters[f]) /\ i + 1 # 1
          BY <1>3, <2>1, <5>1
        <5>3. waiters'[f][i] = waiters[f][i + 1] /\ waiters[f][i + 1] \in Op \ {op}
          BY <1>3, <2>1, <5>1, <5>2
        <5>4. waiters[f][i + 1] # h
          BY <1>3, <2>1, <5>2 DEF WaitersWait
        <5>5. /\ state[waiters[f][i + 1]] = "waiting"
              /\ core[waiters[f][i + 1]] = f
          BY <5>2 DEF WaitersWait
        <5> QED
          BY <1>2, <2>3, <4>1, <5>3, <5>4, <5>5
      <4>2. CASE g # f
        <5>1. state[waiters[g][i]] = "waiting" /\ core[waiters[g][i]] = g
          BY <2>1, <4>2 DEF WaitersWait
        <5>2. waiters[g][i] \in Op \ {op, h}
          BY <1>3, <2>1, <2>2, <4>2, <5>1
        <5> QED
          BY <1>2, <2>1, <2>3, <4>2, <5>1, <5>2
      <4> QED
        BY <4>1, <4>2
    <3>2. ASSUME NEW g \in Fifo, NEW i \in 1..Len(waiters'[g]),
                 NEW j \in 1..Len(waiters'[g]), waiters'[g][i] = waiters'[g][j]
          PROVE  i = j
      <4>1. CASE g = f
        <5>0. i \in 1..Len(waiters'[f]) /\ j \in 1..Len(waiters'[f])
          BY <4>1
        <5>1. i + 1 \in 1..Len(waiters[f]) /\ j + 1 \in 1..Len(waiters[f])
          BY <1>3, <2>1, <5>0
        <5>2. waiters[f][i + 1] = waiters[f][j + 1]
          BY <2>1, <3>2, <4>1, <5>0
        <5>3. i + 1 = j + 1
          BY <5>1, <5>2 DEF WaitersWait
        <5> QED
          BY <1>3, <2>1, <4>1, <5>3
      <4>2. CASE g # f
        BY <2>1, <3>2, <4>2 DEF WaitersWait
      <4> QED
        BY <4>1, <4>2
    <3> QED
      BY <3>1, <3>2 DEF WaitersWait
  <2>6. WaitingListed'
    <3> SUFFICES ASSUME NEW p \in Op, NEW g \in Fifo,
                        state'[p] = "waiting" /\ core'[p] = g
                 PROVE  \E i \in 1..Len(waiters'[g]) : waiters'[g][i] = p
      BY DEF WaitingListed
    <3>1. p \in Op \ {op, h} /\ state[p] = "waiting" /\ core[p] = g
      BY <1>2, <2>3
    <3>2. PICK i \in 1..Len(waiters[g]) : waiters[g][i] = p
      BY <3>1 DEF WaitingListed
    <3>3. CASE g = f
      <4>1. i # 1 /\ i - 1 \in 1..Len(waiters'[f])
        BY <1>3, <2>1, <3>1, <3>2, <3>3
      <4>2. waiters'[f][i - 1] = waiters[f][(i - 1) + 1]
        BY <2>1, <4>1
      <4> QED
        BY <1>3, <3>2, <3>3, <4>1, <4>2
    <3>4. CASE g # f
      BY <2>1, <3>2, <3>4
    <3> QED
      BY <3>3, <3>4
  <2>7. CurrentRuns'
    BY <1>1, <1>2, <1>4, <1>6, <2>2, <2>3 DEF TypeOK, CurrentRuns
  <2>8. SomebodyRuns'
    BY <1>6, <2>1, <2>2 DEF TypeOK, SomebodyRuns
  <2> QED
    BY <2>4, <2>5, <2>6, <2>7, <2>8
<1> QED
  BY <1>1, <1>5, <1>6 DEF Complete, OnEnd

LEMMA FifoStep == FifoInv /\ [Next]_fifoVars => FifoInv'
<1> SUFFICES ASSUME FifoInv, [Next]_fifoVars PROVE FifoInv'
  OBVIOUS
<1>1. ASSUME NEW f \in Fifo, NEW op \in Op, Start(f, op) PROVE FifoInv'
  BY <1>1, StartKeeps
<1>2. ASSUME NEW op \in Op, Complete(op) PROVE FifoInv'
  BY <1>2, CompleteKeeps
<1>3. CASE UNCHANGED fifoVars
  BY <1>3 DEF fifoVars, FifoInv, TypeOK, WaitersWait, WaitingListed, CurrentRuns,
              SomebodyRuns
<1> QED
  BY <1>1, <1>2, <1>3 DEF Next

LEMMA FifoInvariant == Spec => []FifoInv
BY FifoInit, FifoStep, PTL DEF Spec

\* Every variable stays in its type: a waiter in particular is an operation
\* that was connected (async_sender_fifo.hpp:20-39).
THEOREM TypeCorrect == Spec => []TypeOK
<1>1. FifoInv => TypeOK
  BY DEF FifoInv
<1> QED
  BY <1>1, FifoInvariant, PTL

\* At most one operation of a fifo runs at any time, and it is the one the
\* fifo knows as current (async_sender_fifo.hpp:8).
THEOREM MutualExclusion == Spec => []OneAtATime
<1>1. FifoInv => OneAtATime
  <2> SUFFICES ASSUME FifoInv, NEW f \in Fifo
               PROVE  ActiveOn(f) = {current[f]} \ {Null}
    BY DEF OneAtATime
  <2> QED
    BY NullOpAssumption DEF FifoInv, TypeOK, CurrentRuns, ActiveOn
<1> QED
  BY <1>1, FifoInvariant, PTL

\* Whoever waits stands in the list of a fifo on which somebody runs, so
\* that the end of an operation finds it (async_sender_fifo.hpp:30-38).
THEOREM NoneStranded == Spec => []NobodyStranded
<1>1. FifoInv => NobodyStranded
  BY DEF FifoInv, WaitersWait, WaitingListed, SomebodyRuns, NobodyStranded
<1> QED
  BY <1>1, FifoInvariant, PTL

-----------------------------------------------------------------------------
\* Putting the current operation in front of the list, in three forms.
LEMMA InFront ==
  ASSUME NEW w \in Seq(Op), NEW c \in Op
  PROVE  /\ <<c>> \o w \in Seq(Op)
         /\ <<c>> \o w # <<>>
         /\ Head(<<c>> \o w) = c
         /\ Tail(<<c>> \o w) = w
         /\ \A op \in Op : <<c>> \o Append(w, op) = Append(<<c>> \o w, op)
<1>1. <<c>> \in Seq(Op) /\ Len(<<c>>) = 1 /\ <<c>>[1] = c
  OBVIOUS
<1> DEFINE l == <<c>> \o w
<1>2. /\ l \in Seq(Op)
      /\ Len(l) = 1 + Len(w)
      /\ \A n \in 1..1 + Len(w) : l[n] = IF n <= 1 THEN <<c>>[n] ELSE w[n - 1]
  BY <1>1, ConcatProperties
<1>3. Len(w) \in Nat
  OBVIOUS
<1>4. l # <<>> /\ Head(l) = c
  BY <1>1, <1>2, <1>3
<1>5. Tail(l) = w
  <2>1. /\ Tail(l) \in Seq(Op)
        /\ Len(Tail(l)) = Len(w)
        /\ \A n \in 1..Len(Tail(l)) : Tail(l)[n] = l[n + 1]
    BY <1>2, <1>3, <1>4, HeadTailProperties
  <2>2. \A n \in 1..Len(w) : l[n + 1] = w[n]
    BY <1>2, <1>3
  <2> QED
    BY <2>1, <2>2, SeqEqual
<1>6. ASSUME NEW op \in Op PROVE <<c>> \o Append(w, op) = Append(l, op)
  <2>1. Append(w, op) = w \o <<op>> /\ Append(l, op) = l \o <<op>>
    BY <1>2, AppendIsConcat
  <2>2. <<op>> \in Seq(Op)
    OBVIOUS
  <2> QED
    BY <1>1, <2>1, <2>2, ConcatAssociative
<1> QED
  BY <1>2, <1>4, <1>5, <1>6

\* The line of a fifo, and that its first is the one that is active.
LEMMA LineIsServed ==
  ASSUME FifoInv, NEW f \in Fifo
  PROVE  /\ LineOf(f) \in Seq(Op)
         /\ current[f] = Null => LineOf(f) = <<>>
         /\ current[f] # Null =>
              /\ LineOf(f) # <<>>
              /\ Head(LineOf(f)) = current[f]
              /\ Tail(LineOf(f)) = waiters[f]
         /\ ActiveOn(f) = Line!FirstOf(LineOf(f))
<1> USE NullOpAssumption DEF FifoInv
<1>1. ActiveOn(f) = {current[f]} \ {Null}
  BY DEF TypeOK, CurrentRuns, ActiveOn
<1>2. waiters[f] \in Seq(Op) /\ current[f] \in Op \cup {Null}
  BY DEF TypeOK
<1>3. CASE current[f] = Null
  <2>1. LineOf(f) = <<>>
    BY <1>3 DEF SomebodyRuns, LineOf
  <2> QED
    BY <1>1, <1>3, <2>1 DEF Line!FirstOf
<1>4. CASE current[f] # Null
  <2>1. LineOf(f) = <<current[f]>> \o waiters[f] /\ current[f] \in Op
    BY <1>2, <1>4 DEF LineOf
  <2>2. /\ LineOf(f) \in Seq(Op)
        /\ LineOf(f) # <<>>
        /\ Head(LineOf(f)) = current[f]
        /\ Tail(LineOf(f)) = waiters[f]
    BY <1>2, <2>1, InFront
  <2> QED
    BY <1>1, <1>4, <2>2 DEF Line!FirstOf
<1> QED
  BY <1>3, <1>4

\* Whoever is active is first in line, on every fifo.
FirstIsActive == \A f \in Fifo : ActiveOn(f) = Line!FirstOf(LineOf(f))

LEMMA FirstIsActiveInvariant == Spec => []FirstIsActive
<1>1. FifoInv => FirstIsActive
  BY LineIsServed DEF FirstIsActive
<1> QED
  BY <1>1, FifoInvariant, PTL

\* A step that changes the line of one fifo only is one of Line.
LEMMA LineChanges ==
  ASSUME FirstIsActive, FirstIsActive', NEW f \in Fifo, NEW l, LineOf(f)' = l,
         \A g \in Fifo \ {f} : LineOf(g)' = LineOf(g)
  PROVE  Line!Change(f, l)
<1> DEFINE line == [g \in Fifo |-> LineOf(g)]
           active == [g \in Fifo |-> ActiveOn(g)]
<1>1. line' = [line EXCEPT ![f] = l]
  OBVIOUS
<1>2. \A g \in Fifo : ActiveOn(g)' = IF g = f THEN Line!FirstOf(l) ELSE ActiveOn(g)
  BY DEF FirstIsActive
<1>3. active' = [active EXCEPT ![f] = Line!FirstOf(l)]
  BY <1>2
<1> QED
  BY <1>1, <1>3 DEF Line!Change

LEMMA StartJoins ==
  ASSUME FifoInv, FirstIsActive, FirstIsActive', NEW f \in Fifo, NEW op \in Op,
         Start(f, op)
  PROVE  Line!Join(f, op)
<1> USE NullOpAssumption DEF FifoInv
<1>1. waiters[f] \in Seq(Op) /\ current[f] \in Op \cup {Null}
  BY DEF TypeOK
<1>2. LineOf(f)' = Append(LineOf(f), op)
  <2>1. CASE current[f] = Null
    <3>1. waiters[f] = <<>> /\ waiters'[f] = <<>> /\ current'[f] = op
      BY <2>1 DEF SomebodyRuns, Start, TypeOK
    <3>2. LineOf(f) = <<>> /\ LineOf(f)' = <<op>> \o <<>>
      BY <2>1, <3>1 DEF LineOf
    <3> QED
      BY <3>2
  <2>2. CASE current[f] # Null
    <3>1. waiters'[f] = Append(waiters[f], op) /\ current'[f] = current[f]
      BY <2>2 DEF Start, TypeOK
    <3> QED
      BY <1>1, <2>2, <3>1, InFront DEF LineOf
  <2> QED
    BY <2>1, <2>2
<1>3. \A g \in Fifo \ {f} : LineOf(g)' = LineOf(g)
  BY DEF Start, LineOf, TypeOK
<1> QED
  BY <1>2, <1>3, LineChanges DEF Line!Join

LEMMA CompleteLeaves ==
  ASSUME FifoInv, FirstIsActive, FirstIsActive', NEW op \in Op, Complete(op)
  PROVE  \E f \in Fifo : Line!Leave(f)
<1> USE NullOpAssumption DEF FifoInv
<1>1. PICK f \in Fifo : core[op] = f /\ current[f] = op
  BY DEF Complete, CurrentRuns
<1>2. waiters[f] \in Seq(Op) /\ op # Null
  BY DEF TypeOK
<1>3. LineOf(f) # <<>> /\ Tail(LineOf(f)) = waiters[f]
  BY <1>1, <1>2, LineIsServed
<1>4. LineOf(f)' = waiters[f]
  <2>1. CASE waiters[f] = <<>>
    <3>1. waiters'[f] = waiters[f] /\ current'[f] = Null
      BY <1>1, <2>1 DEF Complete, OnEnd, TypeOK
    <3> QED
      BY <3>1 DEF LineOf
  <2>2. CASE waiters[f] # <<>>
    <3>1. Head(waiters[f]) \in Op /\ Tail(waiters[f]) \in Seq(Op)
      BY <1>2, <2>2
    <3>2. waiters'[f] = Tail(waiters[f]) /\ current'[f] = Head(waiters[f])
      BY <1>1, <2>2 DEF Complete, OnEnd, TypeOK
    <3>3. LineOf(f)' = <<Head(waiters[f])>> \o Tail(waiters[f])
      BY <3>1, <3>2 DEF LineOf
    <3> QED
      BY <1>2, <2>2, <3>3, InFront
  <2> QED
    BY <2>1, <2>2
<1>5. \A g \in Fifo \ {f} : LineOf(g)' = LineOf(g)
  BY <1>1 DEF Complete, OnEnd, LineOf, TypeOK
<1>6. Line!Change(f, Tail(LineOf(f)))
  BY <1>3, <1>4, <1>5, LineChanges
<1> QED
  BY <1>3, <1>6 DEF Line!Leave

\* Operations run one at a time in the order in which they were started:
\* the fifo implements the line.
THEOREM ImplementsLine == Spec => LineSpec
<1>1. Init => Line!Init
  BY DEF Init, Line!Init, LineOf, ActiveOn
<1>2. FifoInv /\ FirstIsActive /\ FirstIsActive' /\ [Next]_fifoVars
        => [Line!Next]_(Line!lineVars)
  <2> SUFFICES ASSUME FifoInv, FirstIsActive, FirstIsActive', [Next]_fifoVars
               PROVE  [Line!Next]_(Line!lineVars)
    OBVIOUS
  <2>1. ASSUME NEW f \in Fifo, NEW op \in Op, Start(f, op) PROVE Line!Next
    BY <2>1, StartJoins DEF Line!Next
  <2>2. ASSUME NEW op \in Op, Complete(op) PROVE Line!Next
    BY <2>2, CompleteLeaves DEF Line!Next
  <2>3. CASE UNCHANGED fifoVars
    BY <2>3 DEF fifoVars, Line!lineVars, LineOf, ActiveOn
  <2> QED
    BY <2>1, <2>2, <2>3 DEF Next
<1> QED
  BY <1>1, <1>2, FifoInvariant, FirstIsActiveInvariant, PTL
     DEF Spec, LineSpec, Line!Spec
=============================================================================
