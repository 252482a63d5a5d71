----------------------------- MODULE LinkProofs -----------------------------
(***************************************************************************)
(* Proofs about Link and the framing of Cobs: every message fits the       *)
(* target that cobs_send provides, its frame has no zero and is decoded to *)
(* the message, and however frames are cut and joined on their way, the    *)
(* receiver is given what was sent.                                        *)
(***************************************************************************)
EXTENDS Link, SequenceTheorems, FiniteSetTheorems, NaturalsInduction, TLAPS

-----------------------------------------------------------------------------
\* Induction and recursion over numbers.

\* A set of numbers that is not empty has a least one.
LEMMA LeastNumber ==
  ASSUME NEW T \in SUBSET Nat, T # {}
  PROVE  \E n \in T : \A m \in T : n <= m
<1>1. IsWellFoundedOn(OpToRel(<, Nat), Nat)
  BY NatLessThanWellFounded, Zenon
<1>2. PICK n \in T : \A m \in T : ~(<<m, n>> \in OpToRel(<, Nat))
  BY <1>1, WFMin, Zenon
<1>3. ASSUME NEW m \in T PROVE n <= m
  <2>1. ~(m < n)
    BY <1>2 DEF OpToRel
  <2> QED BY <2>1
<1> QED BY <1>3

\* What holds of 0, and of n + 1 if it holds of n, holds up to N.
LEMMA Induction ==
  ASSUME NEW N \in Nat, NEW T, 0 \in T, \A n \in 0..N - 1 : n \in T => n + 1 \in T
  PROVE  \A n \in 0..N : n \in T
<1> SUFFICES ASSUME NEW k \in 0..N, k \notin T PROVE FALSE
  OBVIOUS
<1> DEFINE Bad == {n \in 0..N : n \notin T}
<1>1. Bad \in SUBSET Nat /\ Bad # {}
  OBVIOUS
<1>2. PICK n \in Bad : \A j \in Bad : n <= j
  BY <1>1, LeastNumber, Zenon
<1>3. n # 0 /\ n - 1 \in 0..N - 1 /\ n - 1 \notin Bad
  BY <1>2
<1> QED
  BY <1>2, <1>3

\* A function can be defined by its first value and a step.
Follows(f, N, base, step) == f[0] = base /\ \A n \in 1..N : f[n] = step[n][f[n - 1]]

LEMMA Recursion ==
  ASSUME NEW N \in Nat, NEW S, NEW base \in S, NEW step \in [1..N -> [S -> S]]
  PROVE  \E f \in [0..N -> S] : Follows(f, N, base, step)
<1> DEFINE Steps(f, k) == \A n \in 1..k : f[n] = step[n][f[n - 1]]
           Upto(k) == \E f \in [0..k -> S] : f[0] = base /\ Steps(f, k)
           T == {k \in 0..N : Upto(k)}
<1>1. Upto(0)
  <2> DEFINE f == [n \in 0..0 |-> base]
  <2>1. f \in [0..0 -> S] /\ f[0] = base /\ Steps(f, 0)
    OBVIOUS
  <2> QED
    BY <2>1
<1>2. ASSUME NEW k \in 0..N - 1, Upto(k) PROVE Upto(k + 1)
  <2>1. PICK f \in [0..k -> S] : f[0] = base /\ Steps(f, k)
    BY <1>2
  <2> DEFINE g == [n \in 0..k + 1 |-> IF n = k + 1 THEN step[k + 1][f[k]] ELSE f[n]]
  <2>2. step[k + 1] \in [S -> S] /\ f[k] \in S
    OBVIOUS
  <2>3. g \in [0..k + 1 -> S]
    BY <2>2
  <2>4. g[0] = base
    BY <2>1
  <2>5. Steps(g, k + 1)
    <3> SUFFICES ASSUME NEW n \in 1..k + 1 PROVE g[n] = step[n][g[n - 1]]
      OBVIOUS
    <3>1. CASE n = k + 1
      BY <3>1
    <3>2. CASE n \in 1..k
      <4>1. f[n] = step[n][f[n - 1]]
        BY <2>1, <3>2
      <4> QED
        BY <3>2, <4>1
    <3> QED
      BY <3>1, <3>2
  <2> HIDE DEF g, Steps
  <2> QED
    BY <2>3, <2>4, <2>5
<1>3. Upto(N)
  <2> HIDE DEF Upto
  <2>1. 0 \in T /\ \A n \in 0..N - 1 : n \in T => n + 1 \in T
    BY <1>1, <1>2
  <2>2. N \in T
    <3> HIDE DEF T
    <3>1. \A n \in 0..N : n \in T
      BY <2>1, Induction, Zenon
    <3> QED
      BY <3>1
  <2> QED
    BY <2>2
<1> QED
  BY <1>3 DEF Follows

-----------------------------------------------------------------------------
\* The encoder.

Enc(o, l, c) == [out |-> o, last |-> l, count |-> c]

LEMMA EncFields ==
  ASSUME NEW enc, NEW out, NEW last, NEW count, enc = Enc(out, last, count)
  PROVE  enc.out = out /\ enc.last = last /\ enc.count = count
BY DEF Enc

LEMMA EncClose ==
  ASSUME NEW e, NEW code
  PROVE  Close(e, code) = Enc(Append([e.out EXCEPT ![e.last] = code], 0), Len(e.out) + 1, 1)
BY DEF Close, Enc

\* Insert for a byte inside a block, the last of a full block, and a zero.
LEMMA InsertValue ==
  ASSUME NEW e, NEW b, b # 0, e.count + 1 # Limit
  PROVE  /\ Take(e, b) = Enc(Append(e.out, b), e.last, e.count + 1)
         /\ Insert(e, b) = Enc(Append(e.out, b), e.last, e.count + 1)
<1>1. Take(e, b) = Enc(Append(e.out, b), e.last, e.count + 1)
  BY DEF Take, Enc
<1>2. Take(e, b).count = e.count + 1
  BY <1>1, EncFields
<1> QED
  BY <1>1, <1>2 DEF Insert

LEMMA InsertFull ==
  ASSUME NEW e, NEW b, b # 0, e.count + 1 = Limit, NEW o, o = Append(e.out, b)
  PROVE  /\ Take(e, b) = Enc(o, e.last, Limit)
         /\ Insert(e, b) = Enc(Append([o EXCEPT ![e.last] = Limit], 0), Len(o) + 1, 1)
<1> DEFINE f == Take(e, b)
           l == e.last
<1>1. f = Enc(o, l, Limit)
  BY DEF Take, Enc
<1>2. f.count = Limit /\ f.out = o /\ f.last = l
  BY DEF Take
<1> HIDE DEF f, l
<1>3. Insert(e, b) = Close(f, Limit)
  BY <1>2 DEF Insert, f
<1>4. Close(f, Limit) = Enc(Append([o EXCEPT ![l] = Limit], 0), Len(o) + 1, 1)
  BY <1>2, EncClose
<1> QED
  BY <1>1, <1>3, <1>4 DEF f, l

LEMMA InsertZero ==
  ASSUME NEW e
  PROVE  /\ Take(e, 0) = Enc(Append([e.out EXCEPT ![e.last] = e.count], 0), Len(e.out) + 1, 1)
         /\ Insert(e, 0) = Enc(Append([e.out EXCEPT ![e.last] = e.count], 0), Len(e.out) + 1, 1)
<1>1. Take(e, 0) = Close(e, e.count)
  BY DEF Take
<1>2. Close(e, e.count) =
        Enc(Append([e.out EXCEPT ![e.last] = e.count], 0), Len(e.out) + 1, 1)
  BY EncClose
<1>3. Take(e, 0).count = 1
  BY <1>1, <1>2, EncFields
<1> QED
  BY <1>1, <1>2, <1>3, LimitAssumption DEF Insert

EncoderState == [out : Seq(Nat), last : Nat, count : Nat]

LEMMA EncType ==
  ASSUME NEW o \in Seq(Nat), NEW l \in Nat, NEW c \in Nat
  PROVE  Enc(o, l, c) \in EncoderState
BY DEF Enc, EncoderState

LEMMA CloseType ==
  ASSUME NEW o \in Seq(Nat), NEW l \in Nat, NEW code \in Nat
  PROVE  Enc(Append([o EXCEPT ![l] = code], 0), Len(o) + 1, 1) \in EncoderState
<1> DEFINE set == [o EXCEPT ![l] = code]
<1>1. set \in Seq(Nat)
  <2>1. CASE l \in 1..Len(o)
    BY <2>1, ExceptSeq
  <2>2. CASE l \notin 1..Len(o)
    <3>1. o \in [1..Len(o) -> Nat]
      BY LenProperties
    <3>2. set = o
      BY <2>2, <3>1
    <3> QED
      BY <3>2
  <2> QED
    BY <2>1, <2>2
<1>2. Append(set, 0) \in Seq(Nat) /\ Len(o) + 1 \in Nat /\ 1 \in Nat
  BY <1>1
<1> DEFINE p == Append(set, 0)
           k == Len(o) + 1
<1> HIDE DEF p, k
<1>3. Enc(p, k, 1) \in EncoderState
  BY <1>2, EncType DEF p, k
<1> QED
  BY <1>3 DEF p, k

LEMMA InsertType ==
  ASSUME NEW e \in EncoderState, NEW b \in Nat
  PROVE  Insert(e, b) \in EncoderState
<1>1. e.out \in Seq(Nat) /\ e.last \in Nat /\ e.count \in Nat /\ Limit \in Nat
  BY LimitAssumption DEF EncoderState
<1> DEFINE o == Append(e.out, b)
           n == e.count + 1
<1>2. o \in Seq(Nat) /\ n \in Nat
  BY <1>1
<1> HIDE DEF o, n
<1>3. CASE b = 0
  BY <1>1, <1>3, InsertZero, CloseType
<1>4. CASE b # 0 /\ n # Limit
  <2>1. Insert(e, b) = Enc(o, e.last, n)
    BY <1>4, InsertValue DEF o, n
  <2> QED
    BY <1>1, <1>2, <2>1, EncType
<1>5. CASE b # 0 /\ n = Limit
  <2>1. Insert(e, b) = Enc(Append([o EXCEPT ![e.last] = Limit], 0), Len(o) + 1, 1)
    BY <1>5, InsertFull DEF o, n
  <2> QED
    BY <1>1, <1>2, <2>1, CloseType
<1> QED
  BY <1>3, <1>4, <1>5

LEMMA EncodingSteps ==
  ASSUME NEW msg \in Seq(0..Limit)
  PROVE  /\ Encoding(msg)[0] = Encoder
         /\ \A n \in 1..Len(msg) : Encoding(msg)[n] = Insert(Encoding(msg)[n - 1], msg[n])
<1> DEFINE N == Len(msg)
           step == [n \in 1..N |-> [e \in EncoderState |-> Insert(e, msg[n])]]
<1>1. N \in Nat /\ \A n \in 1..N : msg[n] \in Nat
  BY LimitAssumption
<1>2. step \in [1..N -> [EncoderState -> EncoderState]]
  BY <1>1, InsertType
<1>3. Encoder \in EncoderState
  BY DEF Encoder, EncoderState
<1>4. PICK f \in [0..N -> EncoderState] : Follows(f, N, Encoder, step)
  <2> HIDE DEF N, step
  <2> QED
    BY <1>1, <1>2, <1>3, Recursion, Zenon
<1>5. ASSUME NEW n \in 1..N PROVE f[n] = Insert(f[n - 1], msg[n])
  <2>1. f[n - 1] \in EncoderState
    BY <1>1
  <2> QED
    BY <1>4, <2>1 DEF Follows
<1>6. f = [n \in 0..N |-> IF n = 0 THEN Encoder ELSE Insert(f[n - 1], msg[n])]
  BY <1>1, <1>4, <1>5 DEF Follows
<1> DEFINE c == Encoding(msg)
<1>7. c = [n \in 0..N |-> IF n = 0 THEN Encoder ELSE Insert(c[n - 1], msg[n])]
  BY <1>6, Zenon DEF Encoding
<1> HIDE DEF c
<1> QED
  BY <1>1, <1>7 DEF c

-----------------------------------------------------------------------------
\* Blocks.

\* d is what the decoder makes of the first k bytes of s
Runs(d, s, k) ==
    \A i \in 1..k : d[i] = IF i = 1 THEN Decoder(s[1]) ELSE Iter(d[i - 1], s[i])

\* what has been decoded when the code at `last' is read
Before(d, last) ==
    IF last = 1 THEN <<>>
    ELSE IF d[last - 1].nonzero THEN d[last - 1].out ELSE Append(d[last - 1].out, 0)

LEMMA AppendToPart ==
  ASSUME NEW S, NEW b \in Seq(S), NEW s \in Seq(S), NEW l \in 1..Len(s),
         NEW i \in l + 1..Len(s)
  PROVE  Append(b \o SubSeq(s, l + 1, i - 1), s[i]) = b \o SubSeq(s, l + 1, i)
<1>1. ASSUME NEW p, p \in Seq(S), NEW t, t \in Seq(S) PROVE (b \o p) \o t = b \o (p \o t)
  BY <1>1, ConcatAssociative, SMTT(100)
<1> DEFINE p == SubSeq(s, l + 1, i - 1)
           x == s[i]
<1>2. p \in Seq(S) /\ x \in S /\ <<x>> \in Seq(S)
  OBVIOUS
<1>3. SubSeq(s, l + 1, i) = p \o <<x>>
  <2>1. l + 1 \in 1..Len(s) /\ i \in l + 1..Len(s)
    OBVIOUS
  <2> QED
    BY <2>1, SubSeqRecursiveSecond
<1> HIDE DEF p, x
<1>4. b \o p \in Seq(S)
  BY <1>2, ConcatProperties
<1>5. Append(b \o p, x) = (b \o p) \o <<x>>
  BY <1>2, <1>4, AppendIsConcat, Zenon
<1>6. (b \o p) \o <<x>> = b \o (p \o <<x>>)
  BY <1>1, <1>2
<1> QED
  BY <1>3, <1>5, <1>6 DEF p, x

\* What the decoder does at a value byte and at a code byte.
Dec(u, code, y) == [offset |-> u, nonzero |-> code = Limit, out |-> y]

LEMMA DecFields ==
  ASSUME NEW u, NEW code, NEW y, NEW z
  PROVE  /\ [Dec(u, code, y) EXCEPT !.out = z] = Dec(u, code, z)
         /\ [Dec(u, code, y) EXCEPT !.offset = z] = Dec(z, code, y)
         /\ Dec(u, code, y).offset = u
         /\ Dec(u, code, y).nonzero = (code = Limit)
         /\ Dec(u, code, y).out = y
BY DEF Dec

LEMMA DecValue ==
  ASSUME NEW u, NEW code, NEW y, NEW b, u # 1
  PROVE  Iter(Dec(u, code, y), b) = Dec(u - 1, code, Append(y, b))
<1> DEFINE v == u - 1
           z == Append(y, b)
           d == Dec(u, code, y)
           e == [d EXCEPT !.offset = v]
<1>1. d.offset = u /\ d.out = y
  BY DecFields
<1>2. Iter(d, b) = [e EXCEPT !.out = z]
  BY <1>1 DEF Iter
<1>3. e = Dec(v, code, y)
  BY DecFields
<1>4. [Dec(v, code, y) EXCEPT !.out = z] = Dec(v, code, z)
  <2> HIDE DEF v, z
  <2> QED
    BY DecFields
<1> QED
  BY <1>2, <1>3, <1>4, Zenon

LEMMA DecCode ==
  ASSUME NEW d, NEW c, d.offset = 1
  PROVE  Iter(d, c) = Dec(c, c, IF d.nonzero THEN d.out ELSE Append(d.out, 0))
<1> DEFINE z == IF d.nonzero THEN d.out ELSE Append(d.out, 0)
<1>1. Iter(d, c) = [Decoder(c) EXCEPT !.out = z]
  BY DEF Iter
<1>2. Decoder(c) = Dec(c, c, <<>>)
  BY DEF Dec, Decoder
<1>3. [Dec(c, c, <<>>) EXCEPT !.out = z] = Dec(c, c, z)
  <2> HIDE DEF z
  <2> QED
    BY DecFields
<1> QED
  BY <1>1, <1>2, <1>3, Zenon

\* The code of the block at `last' gets its value: s is out with it, and y[i]
\* is what is made of the first i bytes of out.
ClosedBlock(N, last, out, s, d, y, code) ==
    /\ N \in Nat /\ last \in 1..N /\ code \in Nat /\ code = N - last + 1
    /\ \A i \in 1..N : s[i] = IF i = last THEN code ELSE out[i]
    /\ Runs(d, out, last - 1)
    /\ last > 1 => d[last - 1].offset = 1
    /\ y[last] = Before(d, last)
    /\ \A i \in last + 1..N : y[i] = Append(y[i - 1], out[i])

\* After N bytes of s the decoder is at the end of a block of the given code,
\* with y.
DecodesTo(s, N, code, y) == \E g : Runs(g, s, N) /\ g[N] = Dec(1, code, y)

LEMMA BlockRuns ==
  ASSUME NEW N, NEW last, NEW out, NEW s, NEW d, NEW y, NEW code,
         ClosedBlock(N, last, out, s, d, y, code)
  PROVE  DecodesTo(s, N, code, y[N])
<1> USE DEF ClosedBlock
<1> DEFINE o == [i \in last..N |-> code - (i - last)]
           h == [i \in last..N |-> Dec(o[i], code, y[i])]
           g == [i \in 1..N |-> IF i < last THEN d[i] ELSE h[i]]
<1>0. /\ o[last] = code /\ o[N] = 1
      /\ \A i \in last + 1..N : o[i - 1] # 1 /\ o[i] = o[i - 1] - 1
  OBVIOUS
<1> HIDE DEF o
<1>1. \A i \in last..N : h[i] = Dec(o[i], code, y[i])
  OBVIOUS
<1> HIDE DEF h
<1>2. \A i \in 1..N : g[i] = IF i < last THEN d[i] ELSE h[i]
  OBVIOUS
<1> HIDE DEF g
<1>3. ASSUME NEW i \in 1..N
      PROVE  g[i] = IF i = 1 THEN Decoder(s[1]) ELSE Iter(g[i - 1], s[i])
  <2>1. CASE i < last
    <3>1. d[i] = IF i = 1 THEN Decoder(out[1]) ELSE Iter(d[i - 1], out[i])
      BY <2>1 DEF Runs
    <3>2. g[i] = d[i] /\ (i # 1 => g[i - 1] = d[i - 1]) /\ s[i] = out[i] /\ (1 < last => s[1] = out[1])
      BY <1>2, <2>1
    <3> QED
      BY <2>1, <3>1, <3>2
  <2>2. CASE i = last /\ i = 1
    <3>1. y[1] = <<>>
      BY <2>2 DEF Before
    <3>2. h[1] = Dec(code, code, <<>>)
      BY <1>0, <1>1, <2>2, <3>1
    <3>3. g[1] = h[1] /\ s[1] = code
      BY <1>2, <2>2
    <3>4. Decoder(code) = Dec(code, code, <<>>)
      BY DEF Decoder, Dec
    <3> QED
      BY <2>2, <3>2, <3>3, <3>4
  <2>3. CASE i = last /\ i # 1
    <3>1. i - 1 \in 1..N /\ i - 1 < last /\ ~(i < last)
      BY <2>3
    <3>2. g[i - 1] = d[i - 1] /\ g[i] = h[last] /\ s[i] = code
      BY <1>2, <2>3, <3>1
    <3>3. d[i - 1].offset = 1
      BY <2>3
    <3>4. h[last] = Dec(code, code, y[last])
      BY <1>0, <1>1
    <3>5. Iter(d[i - 1], code) =
            Dec(code, code, IF d[i - 1].nonzero THEN d[i - 1].out ELSE Append(d[i - 1].out, 0))
      BY <3>3, DecCode
    <3>6. y[last] = IF d[i - 1].nonzero THEN d[i - 1].out ELSE Append(d[i - 1].out, 0)
      BY <2>3 DEF Before
    <3> QED
      BY <2>3, <3>2, <3>4, <3>5, <3>6
  <2>4. CASE i > last
    <3>1. i - 1 \in 1..N /\ ~(i - 1 < last) /\ ~(i < last) /\ i - 1 \in last..N /\ i \in last..N /\ i # 1
      BY <2>4
    <3>2. g[i - 1] = h[i - 1] /\ g[i] = h[i] /\ s[i] = out[i]
      BY <1>2, <2>4, <3>1
    <3> DEFINE k == i - 1
               u == o[k]
               v == o[i]
    <3>3. u # 1 /\ v = u - 1 /\ y[i] = Append(y[k], out[i])
      BY <1>0, <2>4
    <3>4. h[k] = Dec(u, code, y[k])
      BY <1>1, <3>1
    <3>5. h[i] = Dec(v, code, y[i])
      BY <1>1, <3>1
    <3> HIDE DEF k, u, v
    <3>8. Iter(h[k], out[i]) = h[i]
      BY <3>3, <3>4, <3>5, DecValue
    <3> QED
      BY <3>1, <3>2, <3>8 DEF k
  <2> QED
    BY <2>1, <2>2, <2>3, <2>4
<1>4. Runs(g, s, N)
  BY <1>3 DEF Runs
<1>5. g[N] = h[N]
  BY <1>2
<1>6. h[N] = Dec(1, code, y[N])
  BY <1>0, <1>1
<1> QED
  BY <1>4, <1>5, <1>6 DEF DecodesTo

\* The block at `last' is open: what is before it, with the value bytes behind
\* it, is decoded to m.
Opens(d, out, last, m) ==
    /\ Runs(d, out, last - 1)
    /\ last > 1 => d[last - 1].offset = 1
    /\ Before(d, last) \in Seq(0..Limit)
    /\ m = Before(d, last) \o SubSeq(out, last + 1, Len(out))

\* When the open code gets its value, the decoder has made m of the block.
LEMMA BlockDecodes ==
  ASSUME NEW out \in Seq(0..Limit), NEW last \in 1..Len(out), NEW d, NEW m,
         NEW code \in Nat, code = Len(out) - last + 1, Opens(d, out, last, m)
  PROVE  DecodesTo([out EXCEPT ![last] = code], Len(out), code, m)
<1> DEFINE N == Len(out)
           s == [out EXCEPT ![last] = code]
           b == Before(d, last)
           y == [i \in last..N |-> b \o SubSeq(out, last + 1, i)]
<1>0. /\ Runs(d, out, last - 1) /\ (last > 1 => d[last - 1].offset = 1)
      /\ b \in Seq(0..Limit) /\ m = b \o SubSeq(out, last + 1, Len(out))
  BY DEF Opens
<1>1. N \in Nat /\ last \in 1..N /\ \A i \in 1..N : s[i] = IF i = last THEN code ELSE out[i]
  OBVIOUS
<1>2. y[last] = b /\ y[N] = m
  <2>1. last \in last..N /\ N \in last..N
    BY <1>1
  <2>2. SubSeq(out, last + 1, last) = <<>>
    BY SubSeqEmpty
  <2>3. b \o <<>> = b
    BY <1>0, ConcatEmptySeq
  <2> HIDE DEF b
  <2> QED
    BY <1>0, <2>1, <2>2, <2>3
<1>3. \A i \in last + 1..N : y[i] = Append(y[i - 1], out[i])
  <2> SUFFICES ASSUME NEW i \in last + 1..N PROVE y[i] = Append(y[i - 1], out[i])
    OBVIOUS
  <2>1. i \in last..N /\ i - 1 \in last..N
    BY <1>1
  <2> HIDE DEF b
  <2>3. y[i] = b \o SubSeq(out, last + 1, i) /\ y[i - 1] = b \o SubSeq(out, last + 1, i - 1)
    BY <2>1
  <2>4. Append(b \o SubSeq(out, last + 1, i - 1), out[i]) = b \o SubSeq(out, last + 1, i)
    BY <1>0, AppendToPart
  <2> QED
    BY <2>3, <2>4
<1>4. code = N - last + 1 /\ b = Before(d, last)
  OBVIOUS
<1> HIDE DEF N, s, y, b
<1>5. ClosedBlock(N, last, out, s, d, y, code)
  <2>1. /\ Runs(d, out, last - 1) /\ (last > 1 => d[last - 1].offset = 1)
        /\ y[last] = Before(d, last)
    BY <1>0, <1>2, <1>4
  <2> QED
    BY <1>1, <1>3, <1>4, <2>1 DEF ClosedBlock
<1>6. DecodesTo(s, N, code, y[N])
  BY <1>5, BlockRuns, Zenon
<1> QED
  BY <1>2, <1>6 DEF s, N

OpenBlock(out, last, m) ==
    /\ out \in Seq(0..Limit) /\ m \in Seq(0..Limit)
    /\ last \in 1..Len(out)
    /\ \A i \in 1..Len(out) : i # last => out[i] # 0
    /\ \E d : Opens(d, out, last, m)

LEMMA RunsPrefix ==
  ASSUME NEW d, NEW s, NEW t, NEW k \in Nat, \A i \in 1..k : s[i] = t[i], Runs(d, s, k)
  PROVE  Runs(d, t, k)
BY DEF Runs

LEMMA SamePart ==
  ASSUME NEW S, NEW s \in Seq(S), NEW t \in Seq(S), NEW k \in Nat \ {0}, NEW n \in Nat,
         n <= Len(s), n <= Len(t), \A i \in k..n : s[i] = t[i]
  PROVE  SubSeq(s, k, n) = SubSeq(t, k, n)
<1> DEFINE x == SubSeq(s, k, n)
           y == SubSeq(t, k, n)
           N == IF k <= n THEN n - k + 1 ELSE 0
<1>1. x \in Seq(S) /\ Len(x) = N /\ \A i \in 1..N : x[i] = s[k + i - 1]
  OBVIOUS
<1>2. y \in Seq(S) /\ Len(y) = N /\ \A i \in 1..N : y[i] = t[k + i - 1]
  OBVIOUS
<1> HIDE DEF x, y
<1>3. ASSUME NEW i \in 1..N PROVE x[i] = y[i]
  <2>1. k + i - 1 \in k..n
    OBVIOUS
  <2> QED
    BY <1>1, <1>2, <2>1
<1>4. x = y
  <2> HIDE DEF N
  <2> QED
    BY <1>1, <1>2, <1>3, SeqEqual
<1> QED
  BY <1>4 DEF x, y

\* Before the first byte.
LEMMA FirstBlock == OpenBlock(<<0>>, 1, <<>>)
<1> DEFINE out == <<0>>
<1>1. out \in Seq(0..Limit) /\ Len(out) = 1 /\ <<>> \in Seq(0..Limit)
  BY LimitAssumption
<1>2. SubSeq(out, 2, 1) = <<>>
  BY SubSeqEmpty
<1>3. <<>> \o <<>> = <<>>
  BY ConcatEmptySeq
<1> HIDE DEF out
<1>4. Opens(<<>>, out, 1, <<>>)
  BY <1>1, <1>2, <1>3 DEF Opens, Runs, Before
<1>5. OpenBlock(out, 1, <<>>)
  BY <1>1, <1>4 DEF OpenBlock
<1> QED
  BY <1>5 DEF out

\* A byte other than zero joins the open block.
LEMMA ByteJoins ==
  ASSUME NEW out, NEW last, NEW m, NEW b \in 1..Limit, OpenBlock(out, last, m)
  PROVE  OpenBlock(Append(out, b), last, Append(m, b))
<1> DEFINE S == 0..Limit
           t == Append(out, b)
           n == Append(m, b)
           L == Len(out)
<1>1. PICK d : Opens(d, out, last, m)
  BY DEF OpenBlock
<1>2. out \in Seq(S) /\ m \in Seq(S) /\ last \in 1..L /\ b \in S /\ L \in Nat /\ L \in Int
  BY LimitAssumption DEF OpenBlock
<1>3. t \in Seq(S) /\ n \in Seq(S) /\ Len(t) = L + 1 /\ t[L + 1] = b /\ \A i \in 1..L : t[i] = out[i]
  BY <1>2, AppendProperties
<1> HIDE DEF t
<1>4. \A i \in 1..Len(t) : i # last => t[i] # 0
  BY <1>2, <1>3 DEF OpenBlock
<1>5. Runs(d, t, last - 1)
  <2>1. Runs(d, out, last - 1) /\ last - 1 \in Nat /\ \A i \in 1..last - 1 : out[i] = t[i]
    BY <1>1, <1>2, <1>3 DEF Opens
  <2> QED
    BY <2>1, RunsPrefix
<1>6. SubSeq(out, last + 1, L) = SubSeq(t, last + 1, L)
  <2> DEFINE k == last + 1
  <2>1. k \in Nat \ {0} /\ L \in Nat /\ L <= Len(out) /\ L <= Len(t) /\ \A i \in k..L : out[i] = t[i]
    BY <1>2, <1>3
  <2> HIDE DEF k, L, S
  <2>2. SubSeq(out, k, L) = SubSeq(t, k, L)
    BY <1>2, <1>3, <2>1, SamePart
  <2> QED
    BY <2>2 DEF k
<1>7. Before(d, last) \in Seq(S) /\ m = Before(d, last) \o SubSeq(out, last + 1, L)
  BY <1>1 DEF Opens
<1>8. n = Before(d, last) \o SubSeq(t, last + 1, Len(t))
  <2> DEFINE B == Before(d, last)
  <2>1. B \in Seq(S)
    BY <1>7
  <2> HIDE DEF B, S
  <2> DEFINE k == L + 1
  <2>2. last \in 1..Len(t) /\ k \in last + 1..Len(t) /\ k - 1 = L /\ k = Len(t)
    BY <1>2, <1>3
  <2>3. t[k] = b
    BY <1>3
  <2> HIDE DEF k
  <2>4. Append(B \o SubSeq(t, last + 1, k - 1), t[k]) = B \o SubSeq(t, last + 1, k)
    <3>1. B \in Seq(S) /\ t \in Seq(S) /\ last \in 1..Len(t) /\ k \in last + 1..Len(t)
      BY <1>3, <2>1, <2>2
    <3> QED
      BY <3>1, AppendToPart
  <2>5. m = B \o SubSeq(t, last + 1, L)
    BY <1>6, <1>7 DEF B
  <2> QED
    BY <2>2, <2>3, <2>4, <2>5 DEF B
<1>9. Opens(d, t, last, n)
  BY <1>1, <1>5, <1>7, <1>8 DEF Opens
<1> HIDE DEF n
<1>10. OpenBlock(t, last, n)
  BY <1>2, <1>3, <1>4, <1>9 DEF OpenBlock
<1> QED
  BY <1>10 DEF t, n

\* The open block is closed by its code.
LEMMA BlockCloses ==
  ASSUME NEW out, NEW last, NEW m, NEW code \in 1..Limit,
         OpenBlock(out, last, m), code = Len(out) - last + 1
  PROVE  /\ [out EXCEPT ![last] = code] \in Seq(1..Limit)
         /\ Len([out EXCEPT ![last] = code]) = Len(out)
         /\ DecodesTo([out EXCEPT ![last] = code], Len(out), code, m)
<1> DEFINE S == 0..Limit
           s == [out EXCEPT ![last] = code]
<1>1. PICK d : Opens(d, out, last, m)
  BY DEF OpenBlock
<1>2. out \in Seq(S) /\ last \in 1..Len(out) /\ code \in S /\ code \in Nat /\ Limit \in Nat
  BY LimitAssumption DEF OpenBlock
<1>3. /\ s \in Seq(S) /\ Len(s) = Len(out)
      /\ \A i \in 1..Len(out) : s[i] = IF i = last THEN code ELSE out[i]
  BY <1>2, ExceptSeq
<1>4. DecodesTo(s, Len(out), code, m)
  BY <1>1, <1>2, BlockDecodes
<1> HIDE DEF s
<1>5. ASSUME NEW i \in 1..Len(s) PROVE s[i] \in 1..Limit
  <2>1. s[i] \in S
    BY <1>3, ElementOfSeq
  <2>2. s[i] # 0
    <3>1. i \in 1..Len(out) /\ s[i] = IF i = last THEN code ELSE out[i]
      BY <1>3
    <3>2. i # last => out[i] # 0
      BY <3>1 DEF OpenBlock
    <3> QED
      BY <3>1, <3>2
  <2> QED
    BY <1>2, <2>1, <2>2
<1>6. s \in Seq(1..Limit)
  <2> DEFINE V == 1..Limit
             n == Len(s)
  <2>1. n \in Nat /\ s = [i \in 1..n |-> s[i]]
    BY <1>3, LenProperties
  <2>2. \A i \in 1..n : s[i] \in V
    BY <1>5
  <2> HIDE DEF V, n
  <2>3. s \in [1..n -> V]
    BY <2>1, <2>2
  <2>4. s \in Seq(V)
    BY <2>1, <2>3, SeqDef, Zenon
  <2> QED
    BY <2>4 DEF V
<1> QED
  BY <1>3, <1>4, <1>6 DEF s

\* ... and the next one opened: a full block stands for no zero, any other for one.
LEMMA NextBlock ==
  ASSUME NEW out, NEW last, NEW m, NEW code \in 1..Limit,
         OpenBlock(out, last, m), code = Len(out) - last + 1
  PROVE  OpenBlock(Append([out EXCEPT ![last] = code], 0), Len(out) + 1,
                   IF code = Limit THEN m ELSE Append(m, 0))
<1> DEFINE S == 0..Limit
           s == [out EXCEPT ![last] = code]
           N == Len(out)
           n == IF code = Limit THEN m ELSE Append(m, 0)
           t == Append(s, 0)
           k == N + 1
<1>1. s \in Seq(1..Limit) /\ Len(s) = N /\ DecodesTo(s, N, code, m)
  BY BlockCloses
<1>2. N \in Nat \ {0} /\ m \in Seq(S) /\ Limit \in Nat
  BY LimitAssumption DEF OpenBlock
<1> HIDE DEF s
<1>3. s \in Seq(S) /\ \A i \in 1..N : s[i] # 0
  BY <1>1, <1>2
<1>4. t \in Seq(S) /\ Len(t) = N + 1 /\ \A i \in 1..N : t[i] = s[i]
  BY <1>1, <1>2, <1>3, AppendProperties
<1>5. PICK g : Runs(g, s, N) /\ g[N] = Dec(1, code, m)
  BY <1>1 DEF DecodesTo
<1>6. g[N].offset = 1 /\ g[N].nonzero = (code = Limit) /\ g[N].out = m
  BY <1>5, DecFields
<1> HIDE DEF t, N
<1>7. Runs(g, t, N)
  BY <1>2, <1>4, <1>5, RunsPrefix
<1>8. n \in Seq(S)
  <2>1. Append(m, 0) \in Seq(S)
    BY <1>2, AppendProperties
  <2> QED
    BY <1>2, <2>1
<1>9. Before(g, k) = n
  <2>1. k # 1 /\ k - 1 = N
    BY <1>2
  <2> HIDE DEF k
  <2> QED
    BY <1>6, <2>1 DEF Before
<1>10. n \o SubSeq(t, k + 1, Len(t)) = n
  <2>1. SubSeq(t, k + 1, Len(t)) = <<>>
    BY <1>2, <1>4, SubSeqEmpty
  <2> HIDE DEF n
  <2> QED
    BY <1>8, <2>1, ConcatEmptySeq
<1>11. k > 1 /\ k - 1 = N /\ k \in 1..Len(t)
  BY <1>2, <1>4
<1> HIDE DEF n, k
<1>12. Opens(g, t, k, n)
  BY <1>6, <1>7, <1>8, <1>9, <1>10, <1>11 DEF Opens
<1>13. \A i \in 1..Len(t) : i # k => t[i] # 0
  <2>1. Len(t) = N + 1 /\ N \in Nat
    BY <1>2, <1>4
  <2>2. ASSUME NEW i \in 1..Len(t), i # N + 1 PROVE t[i] # 0
    <3>1. i \in 1..N
      BY <2>1, <2>2
    <3> QED
      BY <1>3, <1>4, <3>1
  <2> QED
    BY <2>2 DEF k
<1>14. OpenBlock(t, k, n)
  BY <1>4, <1>8, <1>11, <1>12, <1>13 DEF OpenBlock
<1> QED
  BY <1>14 DEF t, k, n, s, N

-----------------------------------------------------------------------------
\* The decoder.

LEMMA RunsUnique ==
  ASSUME NEW g, NEW h, NEW s, NEW N \in Nat, Runs(g, s, N), Runs(h, s, N)
  PROVE  \A i \in 1..N : g[i] = h[i]
<1> DEFINE T == {i \in 0..N : i > 0 => g[i] = h[i]}
<1>1. ASSUME NEW n \in 0..N - 1, n \in T PROVE n + 1 \in T
  <2>1. n + 1 \in 1..N /\ n + 1 - 1 = n /\ (n + 1 = 1 <=> n = 0)
    OBVIOUS
  <2>2. /\ g[n + 1] = IF n + 1 = 1 THEN Decoder(s[1]) ELSE Iter(g[n + 1 - 1], s[n + 1])
        /\ h[n + 1] = IF n + 1 = 1 THEN Decoder(s[1]) ELSE Iter(h[n + 1 - 1], s[n + 1])
    BY <2>1 DEF Runs
  <2>3. g[n + 1] = h[n + 1]
    BY <1>1, <2>1, <2>2
  <2> QED
    BY <2>1, <2>3
<1>2. 0 \in T
  OBVIOUS
<1>3. \A n \in 0..N : n \in T
  <2> HIDE DEF T
  <2> QED
    BY <1>1, <1>2, Induction
<1> QED
  BY <1>3

LEMMA DecodingRuns ==
  ASSUME NEW s, NEW N \in Nat, Len(s) = N, NEW g, Runs(g, s, N)
  PROVE  Runs(Decoding(s), s, N)
<1> DEFINE f == [i \in 1..N |-> g[i]]
           d == Decoding(s)
<1>1. Runs(f, s, N)
  BY DEF Runs
<1>2. f = [i \in 1..N |-> IF i = 1 THEN Decoder(s[1]) ELSE Iter(f[i - 1], s[i])]
  <2>1. \A i \in 1..N : f[i] = IF i = 1 THEN Decoder(s[1]) ELSE Iter(f[i - 1], s[i])
    BY <1>1 DEF Runs
  <2>2. f = [i \in 1..N |-> f[i]]
    OBVIOUS
  <2> HIDE DEF f
  <2> QED
    BY <2>1, <2>2
<1> HIDE DEF f
<1>3. d = [i \in 1..N |-> IF i = 1 THEN Decoder(s[1]) ELSE Iter(d[i - 1], s[i])]
  BY <1>2, Zenon DEF Decoding
<1> HIDE DEF d
<1>4. Runs(d, s, N)
  BY <1>3 DEF Runs
<1> QED
  BY <1>4 DEF d

\* A frame whose bytes are decoded to m at the end of a block is decoded to m.
LEMMA DecodesFrame ==
  ASSUME NEW s \in Seq(1..Limit), s # <<>>, NEW code, NEW m, DecodesTo(s, Len(s), code, m)
  PROVE  Decode(s) = m
<1> DEFINE N == Len(s)
<1>1. N \in Nat /\ N \in 1..N
  BY EmptySeq
<1>2. PICK g : Runs(g, s, N) /\ g[N] = Dec(1, code, m)
  BY DEF DecodesTo
<1>3. Runs(Decoding(s), s, N)
  BY <1>1, <1>2, DecodingRuns
<1>4. Decoding(s)[N] = g[N]
  BY <1>1, <1>2, <1>3, RunsUnique
<1>5. g[N].out = m
  BY <1>2, DecFields
<1> QED
  BY <1>4, <1>5 DEF Decode


-----------------------------------------------------------------------------
\* The encoder makes a frame of every message, and has room for it.

\* After n bytes that were m, k of the bytes of out close full blocks.
Encoded(e, m, n) ==
    /\ OpenBlock(e.out, e.last, m)
    /\ e.count = Len(e.out) - e.last + 1 /\ e.count < Limit
    /\ \E k \in Nat : Len(e.out) = 1 + n + k /\ k * (Limit - 1) + e.count - 1 <= n

\* There is room for all codes.
LEMMA Room ==
  ASSUME NEW N \in Nat, NEW k \in Nat, k * (Limit - 1) <= N
  PROVE  N + k <= (N * (Limit + 3)) \div Limit
<1> DEFINE q == (N * (Limit + 3)) \div Limit
<1>1. Limit \in Nat /\ Limit >= 2
  BY LimitAssumption
<1>2. q \in Int /\ N * (Limit + 3) < (q + 1) * Limit
  BY <1>1
<1> HIDE DEF q
<1>3. k <= k * (Limit - 1)
  BY <1>1
<1>4. k * Limit = k * (Limit - 1) + k
  BY <1>1
<1>5. k * Limit <= 2 * N /\ k * Limit \in Nat
  BY <1>1, <1>3, <1>4
<1>6. ASSUME q + 1 <= N + k PROVE FALSE
  <2>1. (q + 1) * Limit <= (N + k) * Limit
    BY <1>1, <1>2, <1>6
  <2>2. (N + k) * Limit = N * Limit + k * Limit
    BY <1>1
  <2>3. N * (Limit + 3) = N * Limit + 3 * N
    BY <1>1
  <2> QED
    BY <1>1, <1>2, <1>5, <2>1, <2>2, <2>3
<1> QED
  BY <1>2, <1>6 DEF q

\* A byte is encoded.
LEMMA InsertEncodes ==
  ASSUME NEW e, NEW m, NEW n \in Nat, NEW N \in Nat, n < N, NEW b \in 0..Limit,
         Encoded(e, m, n)
  PROVE  Encoded(Insert(e, b), Append(m, b), n + 1) /\ Fits(e, b, TargetSize(N))
<1> DEFINE o == e.out
           l == e.last
           c == e.count
           f == Insert(e, b)
           g == Take(e, b)
<1>1. OpenBlock(o, l, m) /\ c = Len(o) - l + 1 /\ c < Limit
  BY DEF Encoded
<1>2. PICK k \in Nat : Len(o) = 1 + n + k /\ k * (Limit - 1) + c - 1 <= n
  BY DEF Encoded
<1>3. o \in Seq(0..Limit) /\ l \in 1..Len(o) /\ Len(o) \in Nat /\ Limit \in Nat /\ Limit >= 2 /\ c \in Nat \ {0}
  BY <1>1, LimitAssumption DEF OpenBlock
<1>4. ASSUME NEW j \in Nat, j * (Limit - 1) <= n + 1
      PROVE  TargetSize(N) \in Int /\ 1 + (n + 1) + j < TargetSize(N)
  <2>1. j * (Limit - 1) <= N
    BY <1>3, <1>4
  <2>2. N + j <= (N * (Limit + 3)) \div Limit
    BY <2>1, Room
  <2>3. (N * (Limit + 3)) \div Limit \in Int
    BY <1>3
  <2> QED
    BY <2>2, <2>3 DEF TargetSize
<1>5. k * (Limit - 1) \in Nat /\ (k + 1) * (Limit - 1) = k * (Limit - 1) + Limit - 1
  BY <1>3
<1> HIDE DEF o, l, c, f, g
<1>6. CASE b # 0 /\ c + 1 # Limit
  <2>1. f = Enc(Append(o, b), l, c + 1) /\ g = f
    BY <1>6, InsertValue DEF o, l, c, f, g
  <2> DEFINE p == Append(o, b)
             x == c + 1
  <2>2. Len(p) = Len(o) + 1
    BY <1>3
  <2>3. OpenBlock(p, l, Append(m, b))
    BY <1>1, <1>6, ByteJoins
  <2>4. x = Len(p) - l + 1 /\ x < Limit
    BY <1>1, <1>3, <1>6, <2>2
  <2>5. Len(p) = 1 + (n + 1) + k /\ k * (Limit - 1) + x - 1 <= n + 1
    BY <1>2, <1>3, <1>5, <2>2
  <2>6. Len(p) < TargetSize(N)
    <3>1. k * (Limit - 1) <= n + 1
      BY <1>2, <1>3, <1>5
    <3>2. 1 + (n + 1) + k < TargetSize(N)
      BY <1>4, <3>1
    <3> QED
      BY <2>5, <3>2
  <2> HIDE DEF p, x
  <2>7. f.out = p /\ f.last = l /\ f.count = x
    <3>1. f = Enc(p, l, x)
      BY <2>1 DEF p, x
    <3> QED
      BY <3>1, EncFields
  <2>8. Encoded(f, Append(m, b), n + 1)
    BY <2>3, <2>4, <2>5, <2>7 DEF Encoded
  <2>9. Len(f.out) # TargetSize(N)
    BY <1>2, <2>2, <2>5, <2>6, <2>7
  <2> QED
    BY <2>1, <2>8, <2>9 DEF Fits, f, g
<1>7. CASE b = 0
  <2> DEFINE p == Append([o EXCEPT ![l] = c], 0)
             x == Len(o) + 1
  <2>1. f = Enc(p, x, 1) /\ g = f
    BY <1>7, InsertZero DEF o, l, c, f, g
  <2>2. Len(p) = Len(o) + 1
    <3>1. c \in 1..Limit
      BY <1>1, <1>3
    <3>2. /\ [o EXCEPT ![l] = c] \in Seq(1..Limit)
          /\ Len([o EXCEPT ![l] = c]) = Len(o)
          /\ DecodesTo([o EXCEPT ![l] = c], Len(o), c, m)
      BY <1>1, <3>1, BlockCloses, Zenon
    <3> QED
      BY <3>2
  <2>3. OpenBlock(p, x, Append(m, b))
    BY <1>1, <1>3, <1>7, NextBlock
  <2>5. Len(p) = 1 + (n + 1) + k /\ k * (Limit - 1) <= n + 1
    BY <1>2, <1>3, <1>5, <2>2
  <2>6. Len(p) < TargetSize(N)
    <3>1. 1 + (n + 1) + k < TargetSize(N)
      BY <1>4, <2>5
    <3> QED
      BY <2>5, <3>1
  <2>4. 1 = Len(p) - x + 1 /\ 1 < Limit
    BY <1>3, <2>2
  <2> HIDE DEF p, x
  <2>7. f.out = p /\ f.last = x /\ f.count = 1
    BY <2>1, EncFields, Zenon
  <2>8. Encoded(f, Append(m, b), n + 1)
    <3>1. Len(p) = 1 + (n + 1) + k /\ k * (Limit - 1) + 1 - 1 <= n + 1
      BY <1>5, <2>5
    <3> QED
      BY <2>3, <2>4, <2>7, <3>1 DEF Encoded
  <2>9. Len(f.out) # TargetSize(N)
    BY <1>2, <2>2, <2>5, <2>6, <2>7
  <2> QED
    BY <2>1, <2>8, <2>9 DEF Fits, f, g
<1>8. CASE b # 0 /\ c + 1 = Limit
  <2> DEFINE p == Append(o, b)
             r == Append([p EXCEPT ![l] = Limit], 0)
             x == Len(p) + 1
  <2>1. f = Enc(r, x, 1) /\ g = Enc(p, l, Limit)
    BY <1>8, InsertFull DEF o, l, c, f, g
  <2>2. Len(p) = Len(o) + 1
    BY <1>3
  <2>3. OpenBlock(p, l, Append(m, b))
    BY <1>1, <1>8, ByteJoins
  <2>4. Limit \in 1..Limit /\ Limit = Len(p) - l + 1
    BY <1>1, <1>3, <1>8, <2>2
  <2> HIDE DEF p
  <2>5. Len(r) = Len(p) + 1 /\ OpenBlock(r, x, Append(m, b))
    <3>1. /\ [p EXCEPT ![l] = Limit] \in Seq(1..Limit)
          /\ Len([p EXCEPT ![l] = Limit]) = Len(p)
          /\ DecodesTo([p EXCEPT ![l] = Limit], Len(p), Limit, Append(m, b))
      <4> DEFINE full == Limit
                 n1 == Append(m, b)
      <4>1. full \in 1..Limit /\ full = Len(p) - l + 1 /\ OpenBlock(p, l, n1)
        BY <2>3, <2>4
      <4> HIDE DEF full, n1
      <4>2. /\ [p EXCEPT ![l] = full] \in Seq(1..Limit)
            /\ Len([p EXCEPT ![l] = full]) = Len(p)
            /\ DecodesTo([p EXCEPT ![l] = full], Len(p), full, n1)
        BY <4>1, BlockCloses, Zenon
      <4> QED
        BY <4>2 DEF full, n1
    <3>2. Len(r) = Len(p) + 1
      BY <3>1
    <3> QED
      BY <2>3, <2>4, <3>2, NextBlock
  <2>6. /\ Len(p) = 1 + (n + 1) + k /\ k * (Limit - 1) <= n + 1
        /\ Len(r) = 1 + (n + 1) + (k + 1) /\ (k + 1) * (Limit - 1) <= n + 1
    BY <1>1, <1>2, <1>3, <1>5, <1>8, <2>2, <2>5
  <2>7. Len(p) < TargetSize(N) /\ Len(r) < TargetSize(N)
    <3>1. 1 + (n + 1) + k < TargetSize(N)
      BY <1>4, <2>6
    <3>2. k + 1 \in Nat /\ 1 + (n + 1) + (k + 1) < TargetSize(N)
      BY <1>4, <2>6
    <3> QED
      BY <2>6, <3>1, <3>2
  <2>8. 1 = Len(r) - x + 1 /\ 1 < Limit
    BY <1>3, <2>2, <2>5
  <2> HIDE DEF r, x
  <2>9. f.out = r /\ f.last = x /\ f.count = 1 /\ g.out = p
    BY <2>1, EncFields, Zenon
  <2>10. Encoded(f, Append(m, b), n + 1)
    <3>1. k + 1 \in Nat /\ Len(r) = 1 + (n + 1) + (k + 1) /\ (k + 1) * (Limit - 1) + 1 - 1 <= n + 1
      BY <1>3, <1>5, <2>6
    <3> QED
      BY <2>5, <2>8, <2>9, <3>1 DEF Encoded
  <2>11. Len(f.out) # TargetSize(N) /\ Len(g.out) # TargetSize(N)
    BY <1>2, <2>6, <2>7, <2>9
  <2> QED
    BY <2>10, <2>11 DEF Fits, f, g
<1> QED
  BY <1>6, <1>7, <1>8 DEF f

LEMMA PrefixType ==
  ASSUME NEW S, NEW s \in Seq(S), NEW n \in 0..Len(s)
  PROVE  /\ SubSeq(s, 1, n) \in Seq(S) /\ Len(SubSeq(s, 1, n)) = n
         /\ \A i \in 1..n : SubSeq(s, 1, n)[i] = s[i]
OBVIOUS

\* A sequence up to its next element.
LEMMA PrefixGrows ==
  ASSUME NEW S, NEW s \in Seq(S), NEW n \in Nat, n < Len(s)
  PROVE  SubSeq(s, 1, n + 1) = Append(SubSeq(s, 1, n), s[n + 1])
<1> DEFINE m == SubSeq(s, 1, n)
           k == n + 1
           b == s[k]
<1>1. k \in 1..Len(s) /\ k - 1 = n
  OBVIOUS
<1>2. SubSeq(s, 1, k) = SubSeq(s, 1, k - 1) \o <<s[k]>>
  <2>1. 1 \in 1..Len(s)
    BY <1>1
  <2> HIDE DEF k
  <2> QED
    BY <1>1, <2>1, SubSeqRecursiveSecond
<1>3. m \in Seq(S)
  <2>1. n \in 0..Len(s)
    OBVIOUS
  <2> QED
    BY <2>1, PrefixType
<1>4. b \in S
  BY <1>1, ElementOfSeq
<1> HIDE DEF b, m
<1>5. Append(m, b) = m \o <<b>>
  BY <1>3, <1>4, AppendIsConcat, Zenon
<1> QED
  BY <1>1, <1>2, <1>5 DEF b, m

LEMMA FirstEncoded == Encoded(Encoder, <<>>, 0)
<1>1. Encoder = Enc(<<0>>, 1, 1)
  BY DEF Encoder, Enc
<1>2. Encoder.out = <<0>> /\ Encoder.last = 1 /\ Encoder.count = 1
  BY DEF Encoder
<1>3. Len(<<0>>) = 1 + 0 + 0 /\ 0 * (Limit - 1) + 1 - 1 <= 0 /\ 1 < Limit /\ 1 = 1 - 1 + 1
  BY LimitAssumption
<1>4. \E k \in Nat : Len(Encoder.out) = 1 + 0 + k /\ k * (Limit - 1) + Encoder.count - 1 <= 0
  BY <1>2, <1>3
<1> QED
  BY <1>2, <1>3, <1>4, FirstBlock DEF Encoded

LEMMA EncodingEncodes ==
  ASSUME NEW msg \in Seq(0..Limit)
  PROVE  \A n \in 0..Len(msg) : Encoded(Encoding(msg)[n], SubSeq(msg, 1, n), n)
<1> DEFINE N == Len(msg)
           S == 0..Limit
           e == Encoding(msg)
           T == {n \in 0..N : Encoded(e[n], SubSeq(msg, 1, n), n)}
<1>1. N \in Nat /\ msg \in Seq(S)
  OBVIOUS
<1>2. e[0] = Encoder /\ \A n \in 1..N : e[n] = Insert(e[n - 1], msg[n])
  BY EncodingSteps
<1> HIDE DEF e
<1>3. 0 \in T
  <2>1. SubSeq(msg, 1, 0) = <<>>
    BY SubSeqEmpty
  <2>2. Encoded(e[0], SubSeq(msg, 1, 0), 0)
    BY <1>2, <2>1, FirstEncoded
  <2> QED
    BY <1>1, <2>2
<1>4. ASSUME NEW n \in 0..N - 1, n \in T PROVE n + 1 \in T
  <2> DEFINE m == SubSeq(msg, 1, n)
             p == SubSeq(msg, 1, n + 1)
             k == n + 1
             b == msg[k]
  <2>1. n \in Nat /\ n < N /\ k \in 1..N /\ k - 1 = n /\ k \in 0..N
    <3> HIDE DEF N
    <3> QED
      BY <1>1
  <2>2. Encoded(e[n], m, n)
    BY <1>4
  <2>3. e[k] = Insert(e[n], b) /\ b \in S
    BY <1>1, <1>2, <2>1, ElementOfSeq
  <2>4. p = Append(m, b)
    BY <2>1, PrefixGrows
  <2> HIDE DEF m, p, b
  <2>5. Encoded(Insert(e[n], b), Append(m, b), n + 1)
    BY <1>1, <2>1, <2>2, <2>3, InsertEncodes
  <2>6. Encoded(e[k], p, k)
    BY <2>3, <2>4, <2>5
  <2> QED
    BY <2>1, <2>6 DEF p
<1>5. \A n \in 0..N : n \in T
  <2> HIDE DEF T, N
  <2> QED
    BY <1>1, <1>3, <1>4, Induction
<1> QED
  BY <1>5 DEF e

\* cobs_send provides enough room for every message, and its frame is a
\* sequence of bytes other than zero that is decoded to the message.  The frame
\* is longer than the message, so decode_cobs, whose target is the frame itself,
\* never finds its target full (cobs.hpp:20-140, util.cpp:47-60).
THEOREM DecodingUndoesEncoding ==
  ASSUME NEW msg \in Seq(0..Limit)
  PROVE  /\ Encode(msg).ok
         /\ Encode(msg).frame \in Seq(1..Limit)
         /\ Len(msg) < Len(Encode(msg).frame)
         /\ Decode(Encode(msg).frame) = msg
<1> DEFINE N == Len(msg)
           e == Encoding(msg)
           o == e[N].out
           l == e[N].last
           c == e[N].count
           s == [o EXCEPT ![l] = c]
           good == \A n \in 1..N : Fits(e[n - 1], msg[n], TargetSize(N))
<1>1. N \in Nat /\ \A n \in 0..N : Encoded(e[n], SubSeq(msg, 1, n), n)
  BY EncodingEncodes
<1>2. SubSeq(msg, 1, N) = msg
  BY SubSeqFull
<1>3. Encode(msg).ok = good /\ Encode(msg).frame = s
  BY DEF Encode, EncodeInto
<1> HIDE DEF e
<1>4. good
  <2> SUFFICES ASSUME NEW n \in 1..N PROVE Fits(e[n - 1], msg[n], TargetSize(N))
    OBVIOUS
  <2> DEFINE k == n - 1
             b == msg[n]
             m == SubSeq(msg, 1, k)
  <2>1. k \in Nat /\ k < N /\ k \in 0..N
    <3> HIDE DEF N
    <3> QED
      BY <1>1
  <2>4. b \in 0..Limit
    BY ElementOfSeq
  <2>2. Encoded(e[k], m, k)
    BY <1>1, <2>1
  <2> HIDE DEF k, b, m, N
  <2>3. Fits(e[k], b, TargetSize(N))
    BY <1>1, <2>1, <2>2, <2>4, InsertEncodes
  <2> QED
    BY <2>3 DEF k, b
<1>5. Encoded(e[N], msg, N)
  <2>1. N \in 0..N
    BY <1>1
  <2> QED
    BY <1>1, <1>2, <2>1
<1> HIDE DEF good
<1>6. /\ OpenBlock(o, l, msg) /\ c = Len(o) - l + 1 /\ c < Limit
      /\ \E k \in Nat : Len(o) = 1 + N + k
  BY <1>5 DEF Encoded
<1>7. o \in Seq(0..Limit) /\ l \in 1..Len(o) /\ c \in 1..Limit
  BY <1>6, LimitAssumption DEF OpenBlock
<1> HIDE DEF o, l, c
<1>8. s \in Seq(1..Limit) /\ Len(s) = Len(o) /\ DecodesTo(s, Len(o), c, msg)
  BY <1>6, <1>7, BlockCloses
<1> HIDE DEF s
<1>9. N < Len(s) /\ s # <<>>
  <2>1. PICK k \in Nat : Len(o) = 1 + N + k
    BY <1>6
  <2>2. N < Len(s)
    BY <1>1, <1>8, <2>1
  <2> QED
    BY <1>7, <1>8, <2>2
<1>10. Decode(s) = msg
  BY <1>8, <1>9, DecodesFrame
<1> QED
  BY <1>3, <1>4, <1>8, <1>9, <1>10

-----------------------------------------------------------------------------
\* A stream of frames.

\* s is m frames, each followed by a zero: the i-th is F[i] and its zero is at
\* q[i].
Framed(s, q, F, m) ==
    /\ s \in Seq(Byte) /\ m \in Nat /\ q \in [0..m -> Nat]
    /\ F \in [1..m -> Seq(1..Limit)]
    /\ q[0] = 0 /\ q[m] = Len(s)
    /\ \A i \in 1..m :
         /\ q[i] = q[i - 1] + Len(F[i]) + 1
         /\ s[q[i]] = 0
         /\ \A j \in 1..Len(F[i]) : s[q[i - 1] + j] = F[i][j]

LEMMA FramedGrows ==
  ASSUME NEW s, NEW q, NEW F, NEW m, Framed(s, q, F, m)
  PROVE  \A j \in 0..m : \A i \in 0..m : i < j => q[i] < q[j]
<1> DEFINE T == {j \in 0..m : \A i \in 0..m : i < j => q[i] < q[j]}
<1>1. m \in Nat /\ \A i \in 0..m : q[i] \in Nat
  BY DEF Framed
<1>2. \A i \in 1..m : q[i - 1] < q[i]
  <2> SUFFICES ASSUME NEW i \in 1..m PROVE q[i - 1] < q[i]
    OBVIOUS
  <2>1. q[i] = q[i - 1] + Len(F[i]) + 1 /\ F[i] \in Seq(1..Limit)
    BY DEF Framed
  <2>2. Len(F[i]) \in Nat /\ q[i - 1] \in Nat
    BY <1>1, <2>1
  <2> QED
    BY <2>1, <2>2
<1>3. 0 \in T
  BY <1>1
<1>4. ASSUME NEW j \in 0..m - 1, j \in T PROVE j + 1 \in T
  <2>1. q[j] < q[j + 1] /\ j + 1 \in 0..m /\ q[j] \in Nat /\ q[j + 1] \in Nat
    <3>1. j + 1 \in 1..m /\ j + 1 - 1 = j /\ j \in 0..m
      BY <1>1
    <3> QED
      BY <1>1, <1>2, <3>1
  <2>2. ASSUME NEW i \in 0..m, i < j + 1 PROVE q[i] < q[j + 1]
    <3>1. i = j \/ q[i] < q[j]
      BY <1>1, <1>4, <2>2
    <3> QED
      BY <1>1, <2>1, <3>1
  <2> QED
    BY <2>1, <2>2
<1>5. \A j \in 0..m : j \in T
  <2> HIDE DEF T
  <2> QED
    BY <1>1, <1>3, <1>4, Induction
<1> QED
  BY <1>5

\* The zeros of the stream are the ends of the frames.
LEMMA FramedZeros ==
  ASSUME NEW s, NEW q, NEW F, NEW m, Framed(s, q, F, m), NEW x \in 1..Len(s)
  PROVE  s[x] = 0 <=> \E i \in 1..m : x = q[i]
<1>1. /\ m \in Nat /\ \A i \in 0..m : q[i] \in Nat
      /\ q[0] = 0 /\ q[m] = Len(s) /\ s \in Seq(Byte)
  BY DEF Framed
<1>2. ASSUME NEW i \in 1..m, x = q[i] PROVE s[x] = 0
  BY <1>2 DEF Framed
<1>3. ASSUME \A i \in 1..m : x # q[i] PROVE s[x] # 0
  <2> DEFINE T == {i \in 0..m : x <= q[i]}
  <2>1. T \in SUBSET Nat /\ m \in T
    BY <1>1
  <2>2. PICK i \in T : \A j \in T : i <= j
    BY <2>1, LeastNumber
  <2>3. i # 0 /\ i \in 1..m /\ i - 1 \in 0..m
    BY <1>1, <2>2
  <2>4. q[i - 1] < x /\ x < q[i]
    <3>1. i - 1 \notin T
      BY <2>2, <2>3
    <3> QED
      BY <1>1, <1>3, <2>3, <3>1
  <2> DEFINE j == x - q[i - 1]
  <2>5. q[i] = q[i - 1] + Len(F[i]) + 1 /\ F[i] \in Seq(1..Limit)
    BY <2>3 DEF Framed
  <2>6. Len(F[i]) \in Nat /\ q[i - 1] \in Nat
    BY <1>1, <2>3, <2>5
  <2>7. j \in 1..Len(F[i]) /\ q[i - 1] + j = x
    BY <1>1, <2>3, <2>4, <2>5, <2>6
  <2> HIDE DEF j
  <2>8. s[x] = F[i][j]
    BY <2>3, <2>7 DEF Framed
  <2>9. F[i][j] \in 1..Limit
    BY <2>5, <2>7, ElementOfSeq
  <2> QED
    BY <2>8, <2>9
<1> QED
  BY <1>2, <1>3

LEMMA CountMarks ==
  ASSUME NEW m \in Nat, NEW q, \A i \in 1..m : q[i] \in Nat,
         \A i, j \in 1..m : i < j => q[i] < q[j]
  PROVE  Cardinality({q[i] : i \in 1..m}) = m
<1> DEFINE Z == {q[i] : i \in 1..m}
           f == [i \in 1..m |-> q[i]]
<1>1. f \in [1..m -> Z]
  OBVIOUS
<1>2. ASSUME NEW i \in 1..m, NEW j \in 1..m, f[i] = f[j] PROVE i = j
  <2>1. ~(i < j) /\ ~(j < i)
    BY <1>2
  <2> QED
    BY <2>1
<1>3. \A z \in Z : \E i \in 1..m : f[i] = z
  OBVIOUS
<1> HIDE DEF f, Z
<1>4. ExistsBijection(1..m, Z)
  BY <1>1, <1>2, <1>3 DEF ExistsBijection, Bijection, Injection, Surjection, IsInjective
<1>5. Cardinality(Z) = m
  BY <1>4, FS_CountingElements
<1> QED
  BY <1>5 DEF Z

\* The first k frames end within the first B bytes.
CutAt(q, m, B, k) == k \in 0..m /\ q[k] <= B /\ \A i \in 1..m : q[i] <= B <=> i <= k

LEMMA FramedCut ==
  ASSUME NEW s, NEW q, NEW F, NEW m, Framed(s, q, F, m), NEW B \in 0..Len(s)
  PROVE  \E k : CutAt(q, m, B, k)
<1> DEFINE T == {i \in 0..m : q[m - i] <= B}
<1>1. m \in Nat /\ (\A i \in 0..m : q[i] \in Nat) /\ q[0] = 0
  BY DEF Framed
<1>2. T \in SUBSET Nat /\ m \in T
  BY <1>1
<1>3. PICK i \in T : \A j \in T : i <= j
  BY <1>2, LeastNumber
<1> DEFINE k == m - i
<1>4. k \in 0..m /\ q[k] <= B
  BY <1>1, <1>3
<1>5. ASSUME NEW j \in 1..m PROVE q[j] <= B <=> j <= k
  <2>1. ASSUME j <= k PROVE q[j] <= B
    <3>1. j = k \/ q[j] < q[k]
      <4> HIDE DEF k
      <4> QED
        BY <1>1, <1>4, <2>1, FramedGrows
    <3> QED
      BY <1>1, <1>4, <3>1
  <2>2. ASSUME k < j PROVE ~(q[j] <= B)
    <3>1. m - j \in 0..m /\ m - j < i /\ m - (m - j) = j
      BY <1>1, <1>3, <2>2
    <3>2. m - j \notin T
      BY <1>3, <3>1
    <3> QED
      BY <3>1, <3>2
  <2> QED
    BY <1>1, <1>4, <2>1, <2>2
<1> HIDE DEF k
<1> QED
  BY <1>4, <1>5 DEF CutAt

\* The first B bytes of the stream, in the receiver's buffer.
IsStart(buff, s, B) == /\ buff \in Seq(Byte) /\ Len(buff) = B
                       /\ \A x \in 1..B : buff[x] = s[x]

LEMMA StartEnds ==
  ASSUME NEW s, NEW q, NEW F, NEW m, Framed(s, q, F, m), NEW B \in 0..Len(s),
         NEW k, CutAt(q, m, B, k), NEW buff, IsStart(buff, s, B)
  PROVE  /\ Ends(buff) = {q[i] : i \in 1..k}
         /\ Cardinality(Ends(buff)) = k
         /\ \A i \in 0..k : End(buff, i) = q[i]
<1>1. /\ m \in Nat /\ (\A i \in 0..m : q[i] \in Nat) /\ q[0] = 0 /\ q[m] = Len(s)
      /\ k \in 0..m
  BY DEF Framed, CutAt
<1>2. \A i \in 1..k : i \in 1..m /\ i \in 0..m /\ q[i] \in Nat
  BY <1>1
<1>3. \A i, j \in 1..k : i < j => q[i] < q[j]
  BY <1>2, FramedGrows
<1>4. \A i \in 1..k : q[i] \in 1..B
  <2> SUFFICES ASSUME NEW i \in 1..k PROVE q[i] \in 1..B
    OBVIOUS
  <2>1. q[i] <= B
    BY <1>1, <1>2 DEF CutAt
  <2>2. q[0] < q[i]
    BY <1>1, FramedGrows
  <2> QED
    BY <1>1, <1>2, <2>1, <2>2
<1> DEFINE Z == {q[i] : i \in 1..k}
<1>5. Ends(buff) = Z
  <2>1. ASSUME NEW x \in 1..B PROVE buff[x] = 0 <=> x \in Z
    <3>1. buff[x] = s[x] /\ x \in 1..Len(s)
      BY <1>1 DEF IsStart
    <3>2. s[x] = 0 <=> \E i \in 1..m : x = q[i]
      BY <3>1, FramedZeros
    <3>3. ASSUME NEW i \in 1..m, x = q[i] PROVE i \in 1..k
      BY <1>1, <3>3 DEF CutAt
    <3> QED
      BY <1>2, <3>1, <3>2, <3>3
  <2>2. Len(buff) = B
    BY DEF IsStart
  <2>3. Z \subseteq 1..B
    BY <1>4
  <2> HIDE DEF Z
  <2> QED
    BY <2>1, <2>2, <2>3 DEF Ends
<1>6. Cardinality(Z) = k
  <2>1. k \in Nat
    BY <1>1
  <2> QED
    BY <1>2, <1>3, <2>1, CountMarks
<1> HIDE DEF Z
<1>7. ASSUME NEW i \in 1..k PROVE Cardinality({x \in Z : x <= q[i]}) = i
  <2>1. {x \in Z : x <= q[i]} = {q[j] : j \in 1..i}
    <3>1. ASSUME NEW j \in 1..k PROVE q[j] <= q[i] <=> j <= i
      <4>1. q[i] \in Nat /\ q[j] \in Nat
        BY <1>2
      <4>2. (i < j => q[i] < q[j]) /\ (j < i => q[j] < q[i])
        BY <1>3
      <4> QED
        BY <1>1, <4>1, <4>2
    <3> QED
      BY <1>1, <3>1 DEF Z
  <2>2. i \in Nat /\ (\A j \in 1..i : q[j] \in Nat) /\ \A h, j \in 1..i : h < j => q[h] < q[j]
    BY <1>1, <1>2, <1>3
  <2>3. Cardinality({q[j] : j \in 1..i}) = i
    BY <2>2, CountMarks
  <2> QED
    BY <2>1, <2>3
<1>8. ASSUME NEW i \in 0..k PROVE End(buff, i) = q[i]
  <2>1. CASE i = 0
    BY <1>1, <2>1 DEF End
  <2>2. CASE i # 0
    <3>1. i \in 1..k
      BY <1>1, <2>2
    <3>2. q[i] \in Z /\ Cardinality({x \in Z : x <= q[i]}) = i
      BY <1>7, <3>1 DEF Z
    <3>3. ASSUME NEW e \in Z, Cardinality({x \in Z : x <= e}) = i PROVE e = q[i]
      <4>1. PICK j \in 1..k : e = q[j]
        BY DEF Z
      <4>2. Cardinality({x \in Z : x <= e}) = j
        BY <1>7, <4>1
      <4> QED
        BY <3>3, <4>1, <4>2
    <3>4. End(buff, i) = CHOOSE e \in Z : Cardinality({x \in Z : x <= e}) = i
      BY <1>5, <2>2 DEF End
    <3> QED
      BY <3>2, <3>3, <3>4
  <2> QED
    BY <2>1, <2>2
<1> QED
  BY <1>5, <1>6, <1>8 DEF Z

LEMMA StartFrames ==
  ASSUME NEW s, NEW q, NEW F, NEW m, Framed(s, q, F, m), NEW B \in 0..Len(s),
         NEW k, CutAt(q, m, B, k), NEW buff, IsStart(buff, s, B)
  PROVE  \A i \in 1..k : Frame(buff, i) = F[i]
<1> SUFFICES ASSUME NEW i \in 1..k PROVE Frame(buff, i) = F[i]
  OBVIOUS
<1>1. m \in Nat /\ (\A j \in 0..m : q[j] \in Nat) /\ k \in 0..m /\ s \in Seq(Byte)
  BY DEF Framed, CutAt
<1>2. i \in 1..m /\ i - 1 \in 0..k /\ i \in 0..k /\ i - 1 \in 0..m
  BY <1>1
<1> DEFINE a == q[i - 1]
           f == F[i]
           x == SubSeq(buff, a + 1, q[i] - 1)
<1>3. Frame(buff, i) = x
  <2>1. End(buff, i) = q[i] /\ End(buff, i - 1) = q[i - 1]
    BY <1>2, StartEnds
  <2> QED
    BY <2>1 DEF Frame
<1>4. /\ f \in Seq(1..Limit) /\ q[i] = a + Len(f) + 1
      /\ \A j \in 1..Len(f) : s[a + j] = f[j]
  BY <1>2 DEF Framed
<1>5. a \in Nat /\ q[i] <= B /\ Len(f) \in Nat /\ B <= Len(s)
  BY <1>1, <1>2, <1>4 DEF CutAt
<1> HIDE DEF f, a
<1>6. \A j \in a + 1..q[i] - 1 : j \in 1..B /\ j - a \in 1..Len(f) /\ j = a + (j - a)
  BY <1>4, <1>5
<1>7. \A j \in a + 1..q[i] - 1 : buff[j] = f[j - a]
  BY <1>4, <1>6 DEF IsStart
<1>8. x \in Seq(1..Limit) /\ Len(x) = Len(f) /\ \A j \in 1..Len(f) : x[j] = f[j]
  <2>1. \A j \in a + 1..q[i] - 1 : buff[j] \in 1..Limit
    BY <1>4, <1>6, <1>7, ElementOfSeq
  <2>2. a + 1 \in Int /\ q[i] - 1 \in Int
    BY <1>1, <1>2, <1>5
  <2> DEFINE u == a + 1
             v == q[i] - 1
  <2>3. v - u + 1 = Len(f) /\ u <= v + 1
    BY <1>4, <1>5
  <2> HIDE DEF u, v
  <2>4. /\ SubSeq(buff, u, v) \in Seq(1..Limit)
        /\ Len(SubSeq(buff, u, v)) = IF u <= v THEN v - u + 1 ELSE 0
        /\ \A j \in 1..v - u + 1 : SubSeq(buff, u, v)[j] = buff[u + j - 1]
    BY <2>1, <2>2, SubSeqProperties DEF u, v
  <2>5. Len(SubSeq(buff, u, v)) = Len(f)
    BY <1>5, <2>2, <2>3, <2>4 DEF u, v
  <2>6. ASSUME NEW j \in 1..Len(f) PROVE SubSeq(buff, u, v)[j] = f[j]
    <3> DEFINE h == a + j
    <3>1. h \in a + 1..q[i] - 1 /\ u + j - 1 = h /\ h - a = j
      BY <1>4, <1>5 DEF u
    <3> HIDE DEF h
    <3>2. buff[h] = f[j]
      BY <1>7, <3>1
    <3>3. j \in 1..v - u + 1
      BY <2>3
    <3>4. SubSeq(buff, u, v)[j] = buff[u + j - 1]
      BY <2>4, <3>3
    <3> QED
      BY <3>1, <3>2, <3>4
  <2> QED
    BY <2>4, <2>5, <2>6 DEF u, v
<1> HIDE DEF x
<1>9. x = f
  <2> DEFINE S == 1..Limit
  <2>1. f \in Seq(S) /\ x \in Seq(S) /\ Len(x) = Len(f) /\ \A j \in 1..Len(x) : x[j] = f[j]
    BY <1>4, <1>8
  <2> HIDE DEF S
  <2> QED
    BY <2>1, SeqEqual
<1> QED
  BY <1>3, <1>9 DEF f

\* What stays in the buffer has no zero.
LEMMA StartRest ==
  ASSUME NEW s, NEW q, NEW F, NEW m, Framed(s, q, F, m), NEW B \in 0..Len(s),
         NEW k, CutAt(q, m, B, k), NEW buff, IsStart(buff, s, B)
  PROVE  /\ Rest(buff) \in Seq(1..Limit) /\ Len(Rest(buff)) = B - q[k]
         /\ \A x \in 1..B - q[k] : Rest(buff)[x] = s[q[k] + x]
<1>1. m \in Nat /\ (\A j \in 0..m : q[j] \in Nat) /\ k \in 0..m /\ q[k] <= B
  BY DEF Framed, CutAt
<1>2. Rest(buff) = SubSeq(buff, q[k] + 1, B)
  <2>1. End(buff, Cardinality(Ends(buff))) = q[k]
    BY <1>1, StartEnds
  <2> QED
    BY <2>1 DEF Rest, IsStart
<1> DEFINE a == q[k]
<1>3. a \in Nat /\ a <= B /\ B \in Nat
  BY <1>1
<1>4. ASSUME NEW j \in a + 1..B PROVE buff[j] \in 1..Limit
  <2>1. j \in 1..B /\ j > a
    BY <1>3
  <2>2. buff[j] \in Byte
    BY <2>1, ElementOfSeq DEF IsStart
  <2>3. buff[j] # 0
    <3>1. ASSUME NEW i \in 1..k PROVE q[i] <= a
      <4>1. i = k \/ q[i] < q[k]
        BY <1>1, FramedGrows
      <4> QED
        BY <1>1, <4>1
    <3>2. j \notin Ends(buff)
      BY <1>1, <2>1, <3>1, StartEnds
    <3> QED
      BY <2>1, <3>2 DEF Ends, IsStart
  <2> QED
    BY <2>2, <2>3, LimitAssumption DEF Byte
<1> HIDE DEF a
<1>5. /\ SubSeq(buff, a + 1, B) \in Seq(1..Limit)
      /\ Len(SubSeq(buff, a + 1, B)) = B - a
      /\ \A x \in 1..B - a : SubSeq(buff, a + 1, B)[x] = buff[a + x]
  <2> DEFINE u == a + 1
  <2>1. u \in Int /\ B \in Int /\ \A j \in u..B : buff[j] \in 1..Limit
    BY <1>3, <1>4
  <2>2. B - u + 1 = B - a /\ (u <= B \/ B - a = 0)
    BY <1>3
  <2> HIDE DEF u
  <2>3. /\ SubSeq(buff, u, B) \in Seq(1..Limit)
        /\ Len(SubSeq(buff, u, B)) = IF u <= B THEN B - u + 1 ELSE 0
        /\ \A j \in 1..B - u + 1 : SubSeq(buff, u, B)[j] = buff[u + j - 1]
    BY <2>1, SubSeqProperties
  <2>4. Len(SubSeq(buff, u, B)) = B - a
    BY <1>3, <2>2, <2>3 DEF u
  <2>5. \A x \in 1..B - a : u + x - 1 = a + x
    BY <1>3 DEF u
  <2> QED
    BY <2>2, <2>3, <2>4, <2>5 DEF u
<1>6. \A x \in 1..B - a : a + x \in 1..B
  BY <1>3
<1> QED
  BY <1>2, <1>5, <1>6 DEF a, IsStart

\* What is behind the frames that were cut off is framed.
LEMMA FramedRest ==
  ASSUME NEW s, NEW q, NEW F, NEW m, Framed(s, q, F, m), NEW k \in 0..m,
         NEW t \in Seq(Byte), Len(t) = Len(s) - q[k], \A x \in 1..Len(t) : t[x] = s[q[k] + x]
  PROVE  Framed(t, [i \in 0..m - k |-> q[k + i] - q[k]], [i \in 1..m - k |-> F[k + i]], m - k)
<1> DEFINE a == q[k]
           w == m - k
           r == [i \in 0..w |-> q[k + i] - a]
           G == [i \in 1..w |-> F[k + i]]
<1>1. /\ m \in Nat /\ (\A j \in 0..m : q[j] \in Nat) /\ q[m] = Len(s)
      /\ \A i \in 1..m : F[i] \in Seq(1..Limit)
  BY DEF Framed
<1>2. w \in Nat /\ k + w = m /\ k \in Nat /\ a \in Nat
  BY <1>1
<1>3. /\ \A i \in 0..w : r[i] = q[k + i] - a
      /\ \A i \in 1..w : G[i] = F[k + i]
      /\ r = [i \in 0..w |-> r[i]] /\ G = [i \in 1..w |-> G[i]]
  OBVIOUS
<1>4. Len(t) = Len(s) - a /\ \A x \in 1..Len(t) : t[x] = s[a + x]
  OBVIOUS
<1> HIDE DEF r, G, w
<1>5. ASSUME NEW i \in 0..w PROVE k + i \in k..m /\ k + i \in 0..m
  BY <1>1, <1>2
<1>6. ASSUME NEW n \in k..m PROVE q[n] \in Nat /\ a <= q[n] /\ q[n] <= q[m]
  <2> \A j \in 0..m : \A i \in 0..m : i < j => q[i] < q[j]
    BY FramedGrows
  <2>1. n \in 0..m /\ n \in Nat /\ m \in 0..m /\ (n = k \/ k < n) /\ (n = m \/ n < m)
    BY <1>1, <1>2
  <2>2. n = k \/ q[k] < q[n]
    BY <2>1
  <2>3. n = m \/ q[n] < q[m]
    BY <2>1
  <2>4. q[n] \in Nat /\ q[m] \in Nat
    BY <1>1, <2>1
  <2> HIDE DEF a
  <2>5. a <= q[n]
    BY <1>2, <2>2, <2>4 DEF a
  <2> QED
    BY <2>3, <2>4, <2>5
<1> HIDE DEF a
<1>7. r \in [0..w -> Nat]
  <2>1. ASSUME NEW i \in 0..w PROVE r[i] \in Nat
    <3> DEFINE n == k + i
    <3>1. n \in k..m /\ r[i] = q[n] - a
      BY <1>3, <1>5
    <3> HIDE DEF n
    <3>2. q[n] \in Nat /\ a <= q[n]
      BY <1>6, <3>1
    <3> QED
      BY <1>2, <3>1, <3>2
  <2> QED
    BY <1>3, <2>1
<1>8. G \in [1..w -> Seq(1..Limit)]
  <2>1. ASSUME NEW i \in 1..w PROVE G[i] \in Seq(1..Limit)
    <3>1. k + i \in 1..m
      BY <1>1, <1>2
    <3> QED
      BY <1>1, <1>3, <3>1
  <2> QED
    BY <1>3, <2>1
<1>9. r[0] = 0 /\ r[w] = Len(t)
  <2>1. 0 \in 0..w /\ w \in 0..w /\ k + 0 = k
    BY <1>2
  <2>2. r[0] = q[k] - a /\ r[w] = q[m] - a
    BY <1>2, <1>3, <2>1
  <2>3. q[k] = a /\ q[k] - a = 0
    <3>1. q[k] = a
      BY DEF a
    <3> QED
      BY <1>2, <3>1
  <2> QED
    BY <1>1, <1>4, <2>2, <2>3
<1>10. ASSUME NEW i \in 1..w
       PROVE  /\ r[i] = r[i - 1] + Len(G[i]) + 1
              /\ t[r[i]] = 0
              /\ \A j \in 1..Len(G[i]) : t[r[i - 1] + j] = G[i][j]
  <2> DEFINE n == k + i
             g == F[n]
             x == q[n]
             y == q[n - 1]
  <2>1. n \in 1..m /\ n \in k..m /\ n - 1 \in k..m /\ i - 1 \in 0..w /\ i \in 0..w /\ k + (i - 1) = n - 1
    BY <1>1, <1>2
  <2>2. r[i] = x - a /\ r[i - 1] = y - a /\ G[i] = g
    BY <1>3, <2>1
  <2> HIDE DEF n
  <2>3. /\ x = y + Len(g) + 1 /\ s[x] = 0
        /\ \A j \in 1..Len(g) : s[y + j] = g[j]
    BY <2>1 DEF Framed
  <2>4. y \in Nat /\ a <= y /\ x \in Nat /\ x <= Len(s) /\ g \in Seq(1..Limit)
    BY <1>1, <1>6, <2>1
  <2>5. Len(g) \in Nat
    BY <2>4
  <2> HIDE DEF g, x, y
  <2>6. r[i] = r[i - 1] + Len(G[i]) + 1
    BY <1>2, <2>2, <2>3, <2>4, <2>5
  <2>7. t[r[i]] = 0
    <3>1. r[i] \in 1..Len(t) /\ a + r[i] = x
      BY <1>2, <1>4, <2>2, <2>3, <2>4, <2>5
    <3> QED
      BY <1>4, <2>3, <3>1
  <2>8. ASSUME NEW j \in 1..Len(g) PROVE t[r[i - 1] + j] = g[j]
    <3> DEFINE h == r[i - 1] + j
    <3>1. h \in 1..Len(t) /\ a + h = y + j
      BY <1>2, <1>4, <2>2, <2>3, <2>4, <2>5
    <3> HIDE DEF h
    <3>2. t[h] = s[a + h]
      BY <1>4, <3>1
    <3> QED
      BY <2>3, <3>1, <3>2 DEF h
  <2> QED
    BY <2>2, <2>6, <2>7, <2>8
<1>11. Framed(t, r, G, w)
  BY <1>2, <1>7, <1>8, <1>9, <1>10 DEF Framed
<1> QED
  BY <1>11 DEF r, G, w, a

LEMMA TupleSeq ==
  ASSUME NEW S, NEW n \in Nat, NEW s \in [1..n -> S]
  PROVE  s \in Seq(S) /\ Len(s) = n
<1>1. s \in Seq(S)
  BY SeqDef, Zenon
<1>2. DOMAIN s = 1..n
  OBVIOUS
<1> QED
  BY <1>1, <1>2, LenProperties

LEMMA WiderSeq ==
  ASSUME NEW S, NEW T, S \subseteq T, NEW s \in Seq(S)
  PROVE  s \in Seq(T)
<1> DEFINE n == Len(s)
<1>1. n \in Nat /\ s = [i \in 1..n |-> s[i]]
  BY LenProperties
<1>2. \A i \in 1..n : s[i] \in T
  BY ElementOfSeq
<1> HIDE DEF n
<1>3. s \in [1..n -> T]
  BY <1>1, <1>2
<1>4. n \in Nat
  BY <1>1
<1> QED
  BY <1>3, <1>4, SeqDef, Zenon

\* A frame with the zero behind it makes the stream longer by one frame.
LEMMA FramedMore ==
  ASSUME NEW s, NEW q, NEW F, NEW m, Framed(s, q, F, m), NEW f \in Seq(1..Limit)
  PROVE  Framed(s \o Append(f, 0),
                [i \in 0..m + 1 |-> IF i = m + 1 THEN q[m] + Len(f) + 1 ELSE q[i]],
                [i \in 1..m + 1 |-> IF i = m + 1 THEN f ELSE F[i]], m + 1)
<1> DEFINE w == m + 1
           e == q[m] + Len(f) + 1
           r == [i \in 0..w |-> IF i = w THEN e ELSE q[i]]
           G == [i \in 1..w |-> IF i = w THEN f ELSE F[i]]
           t == s \o Append(f, 0)
<1>1. /\ m \in Nat /\ (\A i \in 0..m : q[i] \in Nat) /\ q[0] = 0 /\ q[m] = Len(s)
      /\ (\A i \in 1..m : F[i] \in Seq(1..Limit)) /\ s \in Seq(Byte)
  BY DEF Framed
<1>2. m \in 0..m /\ w \in Nat /\ w # 0 /\ w - 1 = m /\ w # m
  BY <1>1
<1>3. Len(f) \in Nat /\ Len(s) \in Nat
  BY <1>1
<1>4. e = Len(s) + Len(f) + 1 /\ e \in Nat
  BY <1>1, <1>3
<1>5. /\ t \in Seq(Byte) /\ Len(t) = e
      /\ \A x \in 1..Len(s) : t[x] = s[x]
      /\ \A x \in 1..Len(f) : t[Len(s) + x] = f[x]
      /\ t[e] = 0
  <2> DEFINE S == Byte
             g == Append(f, 0)
  <2>1. f \in Seq(S) /\ 0 \in S
    <3>1. 1..Limit \subseteq Byte /\ 0 \in Byte
      BY LimitAssumption DEF Byte
    <3> QED
      BY <3>1, WiderSeq
  <2> HIDE DEF S
  <2>2. /\ g \in Seq(S) /\ Len(g) = Len(f) + 1 /\ g[Len(f) + 1] = 0
        /\ \A x \in 1..Len(f) : g[x] = f[x]
    BY <2>1
  <2> HIDE DEF g
  <2>3. s \in Seq(S)
    BY <1>1 DEF S
  <2>4. /\ s \o g \in Seq(S) /\ Len(s \o g) = Len(s) + Len(g)
        /\ \A x \in 1..Len(s) + Len(g) : (s \o g)[x] = IF x <= Len(s) THEN s[x] ELSE g[x - Len(s)]
    BY <2>2, <2>3, ConcatProperties
  <2> DEFINE o == s \o g
  <2> HIDE DEF o
  <2>5. /\ o \in Seq(S) /\ Len(o) = e
        /\ \A x \in 1..e : o[x] = IF x <= Len(s) THEN s[x] ELSE g[x - Len(s)]
    BY <1>4, <2>2, <2>4 DEF o
  <2>6. \A x \in 1..Len(s) : o[x] = s[x]
    BY <1>3, <1>4, <2>5
  <2>7. ASSUME NEW x \in 1..Len(f) + 1 PROVE o[Len(s) + x] = g[x]
    <3> DEFINE h == Len(s) + x
    <3>1. h \in 1..e /\ ~(h <= Len(s)) /\ h - Len(s) = x
      BY <1>3, <1>4
    <3> HIDE DEF h
    <3>2. o[h] = g[x]
      BY <2>5, <3>1
    <3> QED
      BY <3>2 DEF h
  <2>8. \A x \in 1..Len(f) : o[Len(s) + x] = f[x]
    BY <1>3, <2>2, <2>7
  <2>9. o[e] = 0
    <3>1. Len(f) + 1 \in 1..Len(f) + 1 /\ Len(s) + (Len(f) + 1) = e
      BY <1>3, <1>4
    <3> QED
      BY <2>2, <2>7, <3>1
  <2>10. o = t
    BY DEF o, g
  <2> QED
    BY <2>5, <2>6, <2>8, <2>9, <2>10 DEF S
<1>6. \A i \in 0..m : r[i] = q[i] /\ r[w] = e /\ 0 \in 0..m
  BY <1>1, <1>2
<1>7. \A i \in 1..m : G[i] = F[i] /\ i \in 0..m /\ i - 1 \in 0..m
  BY <1>1
<1>8. G[w] = f /\ w \in 1..w /\ w \in 0..w
  BY <1>2
<1>9. r \in [0..w -> Nat]
  <2>1. ASSUME NEW i \in 0..w, i # w PROVE q[i] \in Nat
    BY <1>1, <2>1
  <2> HIDE DEF e
  <2> QED
    BY <1>4, <2>1
<1>10. G \in [1..w -> Seq(1..Limit)]
  <2>1. ASSUME NEW i \in 1..w, i # w PROVE F[i] \in Seq(1..Limit)
    BY <1>1, <2>1
  <2> QED
    BY <2>1
<1> HIDE DEF r, G, t, e, w
<1>11. ASSUME NEW i \in 1..w
       PROVE  /\ r[i] = r[i - 1] + Len(G[i]) + 1
              /\ t[r[i]] = 0
              /\ \A j \in 1..Len(G[i]) : t[r[i - 1] + j] = G[i][j]
  <2>1. CASE i = w
    <3>1. r[i - 1] = Len(s) /\ r[i] = e /\ G[i] = f
      BY <1>1, <1>2, <1>6, <1>8, <2>1
    <3> QED
      BY <1>4, <1>5, <3>1
  <2>2. CASE i # w
    <3>1. i \in 1..m
      BY <1>1, <2>2 DEF w
    <3> DEFINE x == q[i]
               y == q[i - 1]
               g == F[i]
    <3>2. /\ x = y + Len(g) + 1 /\ s[x] = 0
          /\ \A j \in 1..Len(g) : s[y + j] = g[j]
      BY <3>1 DEF Framed
    <3>3. r[i] = x /\ r[i - 1] = y /\ G[i] = g
      BY <1>6, <1>7, <3>1
    <3>4. y \in Nat /\ x \in Nat /\ g \in Seq(1..Limit) /\ x <= Len(s)
      <4> \A j \in 0..m : \A h \in 0..m : h < j => q[h] < q[j]
        BY FramedGrows
      <4>1. i \in 0..m /\ m \in 0..m /\ i - 1 \in 0..m /\ (i = m \/ i < m)
        BY <1>1, <3>1
      <4>2. i = m \/ q[i] < q[m]
        BY <4>1
      <4>3. q[i] \in Nat /\ q[i - 1] \in Nat /\ g \in Seq(1..Limit)
        BY <1>1, <3>1, <4>1
      <4> QED
        BY <1>1, <1>3, <4>2, <4>3
    <3>5. Len(g) \in Nat
      BY <3>4
    <3> HIDE DEF x, y, g
    <3>6. x \in 1..Len(s)
      BY <1>3, <3>2, <3>4, <3>5
    <3>7. t[x] = 0
      BY <1>5, <3>2, <3>6
    <3>8. ASSUME NEW j \in 1..Len(g) PROVE t[y + j] = g[j]
      <4>1. y + j \in 1..Len(s)
        BY <1>3, <3>2, <3>4, <3>5
      <4> QED
        BY <1>5, <3>2, <4>1
    <3> QED
      BY <3>2, <3>3, <3>7, <3>8
  <2> QED
    BY <2>1, <2>2
<1>12. r[0] = 0 /\ r[w] = Len(t)
  BY <1>1, <1>2, <1>5, <1>6
<1>13. Framed(t, r, G, w)
  BY <1>2, <1>5, <1>9, <1>10, <1>11, <1>12 DEF Framed
<1> QED
  BY <1>13 DEF r, G, w, t, e

-----------------------------------------------------------------------------
(***************************************************************************)
(* What the receiver does with a chunk: rx_buffer holds p, w is on its way *)
(* and n bytes of it arrive.                                               *)
(***************************************************************************)
Arrived(p, w, n) == p \o SubSeq(w, 1, n)

LEMMA ArrivedStarts ==
  ASSUME NEW p \in Seq(Byte), NEW w \in Seq(Byte), NEW n \in 1..Len(w)
  PROVE  /\ Len(p) + n \in 0..Len(p \o w)
         /\ IsStart(Arrived(p, w, n), p \o w, Len(p) + n)
<1> DEFINE c == SubSeq(w, 1, n)
<1>1. Len(p) \in Nat /\ Len(w) \in Nat /\ n \in Nat /\ n <= Len(w)
  OBVIOUS
<1>2. c \in Seq(Byte) /\ Len(c) = n /\ \A x \in 1..n : c[x] = w[x]
  BY <1>1, SubSeqProperties
<1> HIDE DEF c
<1>3. /\ p \o c \in Seq(Byte) /\ Len(p \o c) = Len(p) + Len(c)
      /\ \A x \in 1..Len(p) + Len(c) : (p \o c)[x] = IF x <= Len(p) THEN p[x] ELSE c[x - Len(p)]
  BY <1>2, ConcatProperties
<1>4. /\ Len(p \o w) = Len(p) + Len(w)
      /\ \A x \in 1..Len(p) + Len(w) : (p \o w)[x] = IF x <= Len(p) THEN p[x] ELSE w[x - Len(p)]
  BY ConcatProperties
<1> DEFINE o == p \o c
           s == p \o w
<1> HIDE DEF o, s
<1>5. o \in Seq(Byte) /\ Len(o) = Len(p) + n /\ Len(s) = Len(p) + Len(w)
  BY <1>2, <1>3, <1>4 DEF o, s
<1>6. ASSUME NEW x \in 1..Len(p) + n PROVE o[x] = s[x]
  <2>1. x \in 1..Len(p) + Len(c) /\ x \in 1..Len(p) + Len(w)
    BY <1>1, <1>2
  <2>2. /\ o[x] = IF x <= Len(p) THEN p[x] ELSE c[x - Len(p)]
        /\ s[x] = IF x <= Len(p) THEN p[x] ELSE w[x - Len(p)]
    BY <1>3, <1>4, <2>1 DEF o, s
  <2>3. CASE x <= Len(p)
    BY <2>2, <2>3
  <2>4. CASE ~(x <= Len(p))
    <3>1. x - Len(p) \in 1..n
      BY <1>1, <2>4
    <3> QED
      BY <1>2, <2>2, <2>4, <3>1
  <2> QED
    BY <2>3, <2>4
<1>7. o = Arrived(p, w, n)
  BY DEF o, c, Arrived
<1> QED
  BY <1>1, <1>5, <1>6, <1>7 DEF IsStart, s

LEMMA StreamLeft ==
  ASSUME NEW p \in Seq(Byte), NEW w \in Seq(Byte), NEW n \in 1..Len(w),
         NEW a \in 0..Len(p) + n, NEW r \in Seq(Byte), Len(r) = Len(p) + n - a,
         \A x \in 1..Len(p) + n - a : r[x] = (p \o w)[a + x]
  PROVE  LET t == r \o SubSeq(w, n + 1, Len(w))
         IN  /\ t \in Seq(Byte) /\ Len(t) = Len(p \o w) - a
             /\ \A x \in 1..Len(t) : t[x] = (p \o w)[a + x]
<1> DEFINE d == SubSeq(w, n + 1, Len(w))
           s == p \o w
           t == r \o d
           l == Len(w)
           b == Len(p)
<1>1. b \in Nat /\ l \in Nat /\ n \in Nat /\ n <= l /\ a \in Nat /\ a <= b + n
  OBVIOUS
<1>2. d \in Seq(Byte) /\ Len(d) = l - n /\ \A x \in 1..l - n : d[x] = w[n + x]
  <2> DEFINE u == n + 1
  <2>1. u \in Int /\ l \in Int /\ \A j \in u..l : w[j] \in Byte
    <3>1. \A j \in u..l : j \in 1..l
      BY <1>1
    <3> QED
      BY <1>1, <3>1, ElementOfSeq
  <2> HIDE DEF u
  <2>2. /\ SubSeq(w, u, l) \in Seq(Byte)
        /\ Len(SubSeq(w, u, l)) = IF u <= l THEN l - u + 1 ELSE 0
        /\ \A j \in 1..l - u + 1 : SubSeq(w, u, l)[j] = w[u + j - 1]
    BY <2>1, SubSeqProperties
  <2>3. l - u + 1 = l - n /\ (u <= l \/ l - n = 0) /\ \A x \in 1..l - n : u + x - 1 = n + x
    BY <1>1 DEF u
  <2> QED
    BY <2>2, <2>3 DEF u
<1> HIDE DEF d
<1>3. /\ t \in Seq(Byte) /\ Len(t) = Len(r) + Len(d)
      /\ \A x \in 1..Len(r) + Len(d) : t[x] = IF x <= Len(r) THEN r[x] ELSE d[x - Len(r)]
  BY <1>2, ConcatProperties
<1>4. /\ Len(s) = b + l
      /\ \A x \in 1..b + l : s[x] = IF x <= b THEN p[x] ELSE w[x - b]
  BY ConcatProperties
<1>5. Len(r) = b + n - a /\ \A x \in 1..b + n - a : r[x] = s[a + x]
  OBVIOUS
<1> HIDE DEF s, t, l, b
<1> DEFINE lr == Len(r)
           ld == Len(d)
<1>6. /\ lr = b + n - a /\ ld = l - n /\ Len(t) = lr + ld /\ Len(s) = b + l
      /\ lr \in Nat /\ ld \in Nat
  <2>1. lr = b + n - a
    BY <1>5
  <2>2. ld = l - n /\ ld \in Nat
    BY <1>2
  <2>3. Len(t) = lr + ld
    BY <1>3
  <2>4. lr \in Nat
    BY LenProperties
  <2> QED
    BY <1>4, <2>1, <2>2, <2>3, <2>4
<1>7. \A x \in 1..lr + ld : t[x] = IF x <= lr THEN r[x] ELSE d[x - lr]
  BY <1>3
<1> HIDE DEF lr, ld
<1>8. Len(t) = Len(s) - a
  BY <1>1, <1>6
<1>9. ASSUME NEW x \in 1..Len(t) PROVE t[x] = s[a + x]
  <2>1. CASE x <= b + n - a
    <3>1. x \in 1..b + n - a /\ x \in 1..lr + ld /\ x <= lr
      BY <1>1, <1>6, <2>1
    <3> QED
      BY <1>5, <1>7, <3>1
  <2>2. CASE ~(x <= b + n - a)
    <3> DEFINE y == x - lr
               z == a + x
    <3>1. /\ y \in 1..l - n /\ x \in 1..lr + ld /\ ~(x <= lr)
          /\ z \in 1..b + l /\ ~(z <= b) /\ z - b = n + y
      BY <1>1, <1>6, <2>2
    <3>2. t[x] = d[y]
      BY <1>7, <3>1
    <3> HIDE DEF y, z
    <3>3. s[z] = w[n + y]
      BY <1>4, <3>1
    <3> QED
      BY <1>2, <3>1, <3>2, <3>3 DEF z
  <2> QED
    BY <2>1, <2>2
<1> QED
  BY <1>3, <1>8, <1>9 DEF t, s, d, l

\* A chunk completes the next k frames; what is behind them is framed too.
Reads(p, w, n, m, F, k) ==
    LET u == Arrived(p, w, n)
    IN  /\ k \in 0..m
        /\ Frames(u) = [i \in 1..k |-> F[i]]
        /\ Rest(u) \in Seq(1..Limit) /\ Len(Rest(u)) <= Len(p) + n
        /\ \E q : Framed(Rest(u) \o SubSeq(w, n + 1, Len(w)), q,
                         [i \in 1..m - k |-> F[k + i]], m - k)

LEMMA ReadsFrames ==
  ASSUME NEW p \in Seq(Byte), NEW w \in Seq(Byte), NEW n \in 1..Len(w),
         NEW q, NEW F, NEW m, Framed(p \o w, q, F, m)
  PROVE  \E k : Reads(p, w, n, m, F, k)
<1> DEFINE s == p \o w
           u == Arrived(p, w, n)
           B == Len(p) + n
           r == Rest(u)
           t == r \o SubSeq(w, n + 1, Len(w))
<1>1. B \in 0..Len(s) /\ IsStart(u, s, B) /\ Framed(s, q, F, m)
  BY ArrivedStarts
<1>2. Len(p) \in Nat /\ n \in Nat
  OBVIOUS
<1> HIDE DEF s, u, B
<1>3. PICK k : CutAt(q, m, B, k)
  BY <1>1, FramedCut
<1>4. /\ k \in 0..m /\ m \in Nat /\ k \in Nat
      /\ q[k] \in Nat /\ q[k] <= B /\ B \in Nat
      /\ F \in [1..m -> Seq(1..Limit)]
  BY <1>1, <1>2, <1>3 DEF CutAt, Framed, B
<1>5. Frames(u) = [i \in 1..k |-> F[i]]
  <2>1. Cardinality(Ends(u)) = k
    BY <1>1, <1>3, StartEnds
  <2>2. \A i \in 1..k : Frame(u, i) = F[i]
    BY <1>1, <1>3, StartFrames
  <2> QED
    BY <2>1, <2>2 DEF Frames
<1>6. /\ r \in Seq(1..Limit) /\ Len(r) = B - q[k]
      /\ \A x \in 1..B - q[k] : r[x] = s[q[k] + x]
  BY <1>1, <1>3, StartRest
<1> HIDE DEF r
<1>7. t \in Seq(Byte) /\ Len(t) = Len(s) - q[k] /\ \A x \in 1..Len(t) : t[x] = s[q[k] + x]
  <2>1. r \in Seq(Byte)
    <3>1. 1..Limit \subseteq Byte
      BY LimitAssumption DEF Byte
    <3> QED
      BY <1>6, <3>1, WiderSeq
  <2> DEFINE a == q[k]
  <2>2. a \in 0..Len(p) + n /\ Len(r) = Len(p) + n - a
        /\ \A x \in 1..Len(p) + n - a : r[x] = (p \o w)[a + x]
    <3>1. a \in 0..B
      BY <1>4
    <3> HIDE DEF a
    <3>2. a \in 0..B /\ Len(r) = B - a /\ \A x \in 1..B - a : r[x] = s[a + x]
      BY <1>6, <3>1 DEF a
    <3> QED
      <4>1. a \in 0..Len(p) + n
        BY <3>2 DEF B
      <4>2. Len(r) = Len(p) + n - a
        BY <3>2 DEF B
      <4>3. \A x \in 1..Len(p) + n - a : r[x] = (p \o w)[a + x]
        BY <3>2 DEF B, s
      <4> QED
        BY <4>1, <4>2, <4>3
  <2> HIDE DEF a, t
  <2>3. t \in Seq(Byte) /\ Len(t) = Len(p \o w) - a /\ \A x \in 1..Len(t) : t[x] = (p \o w)[a + x]
    BY <2>1, <2>2, StreamLeft DEF t
  <2> QED
    BY <2>3 DEF a, s
<1> HIDE DEF t
<1>8. Framed(t, [i \in 0..m - k |-> q[k + i] - q[k]], [i \in 1..m - k |-> F[k + i]], m - k)
  BY <1>1, <1>4, <1>7, FramedRest
<1>9. Len(r) <= Len(p) + n
  BY <1>2, <1>4, <1>6 DEF B
<1> QED
  BY <1>4, <1>5, <1>6, <1>8, <1>9 DEF Reads, t, r, u

-----------------------------------------------------------------------------
(***************************************************************************)
(* The invariant.  What the receiver has been given are the first messages *)
(* that were sent; its buffer and what is on its way are, while it runs,   *)
(* the frames of the others.                                               *)
(***************************************************************************)
Missing == Len(sent) - Len(got)

Coming == [i \in 1..Missing |-> Encode(sent[Len(got) + i]).frame]

Arrives == \E q : Framed(rx \o wire, q, Coming, Missing)

LinkInv ==
    /\ TypeOK
    /\ ~error
    /\ Len(got) <= Len(sent) /\ \A i \in 1..Len(got) : got[i] = sent[i]
    /\ up => Arrives

LEMMA MessageBytes == \A msg \in Message : msg \in Seq(Byte)
  BY MessageAssumption DEF Byte

LEMMA MessageEncodes ==
  ASSUME NEW msg \in Message
  PROVE  /\ Encode(msg).ok
         /\ Encode(msg).frame \in Seq(1..Limit)
         /\ Decode(Encode(msg).frame) = msg
<1>1. msg \in Seq(0..Limit)
  BY MessageBytes DEF Byte
<1> QED
  BY <1>1, DecodingUndoesEncoding

LEMMA LinkInit == Init => LinkInv
<1> SUFFICES ASSUME Init PROVE LinkInv
  OBVIOUS
<1> USE DEF Init
<1>1. TypeOK
  <2>1. sent \in Seq(Message) /\ got \in Seq(Seq(Byte)) /\ wire \in Seq(Byte) /\ rx \in Seq(1..Limit)
    BY EmptySeq
  <2>2. Len(rx) <= Capacity
    BY SizesAssumption
  <2> QED
    BY <2>1, <2>2 DEF TypeOK
<1>2. Missing = 0 /\ Len(got) <= Len(sent)
  BY DEF Missing
<1>3. \A i \in 1..Len(got) : got[i] = sent[i]
  OBVIOUS
<1>4. Arrives
  <2> DEFINE q == [i \in 0..0 |-> 0]
             F == [i \in 1..0 |-> Encode(sent[Len(got) + i]).frame]
             s == rx \o wire
  <2>1. s = <<>> /\ s \in Seq(Byte) /\ Len(s) = 0
    OBVIOUS
  <2>2. q \in [0..0 -> Nat] /\ q[0] = 0 /\ F \in [1..0 -> Seq(1..Limit)] /\ 1..0 = {}
    OBVIOUS
  <2> HIDE DEF q, F, s
  <2>3. Framed(s, q, F, 0)
    BY <2>1, <2>2 DEF Framed
  <2>4. Coming = F
    BY <1>2 DEF Coming, F
  <2> QED
    BY <1>2, <2>3, <2>4 DEF Arrives, s
<1> QED
  BY <1>1, <1>2, <1>3, <1>4 DEF LinkInv

LEMMA LinkSend ==
  ASSUME LinkInv, NEW msg \in Message, Send(msg)
  PROVE  LinkInv'
<1> DEFINE f == Encode(msg).frame
           g == Len(got)
           l == Len(sent)
<1>1. /\ sent \in Seq(Message) /\ got \in Seq(Seq(Byte)) /\ wire \in Seq(Byte)
      /\ rx \in Seq(1..Limit) /\ Len(rx) <= Capacity /\ up \in BOOLEAN /\ error = FALSE
      /\ g <= l /\ (\A i \in 1..g : got[i] = sent[i]) /\ (up => Arrives)
  BY DEF LinkInv, TypeOK
<1>2. Encode(msg).ok /\ f \in Seq(1..Limit)
  BY MessageEncodes
<1>3. /\ wire' = wire \o Append(f, 0) /\ sent' = Append(sent, msg) /\ error' = error
      /\ rx' = rx /\ got' = got /\ up' = up
  BY <1>2 DEF Send
<1> HIDE DEF f
<1>4. /\ sent' \in Seq(Message) /\ Len(sent') = l + 1 /\ sent'[l + 1] = msg
      /\ \A i \in 1..l : sent'[i] = sent[i]
  BY <1>1, <1>3
<1>5. l \in Nat /\ g \in Nat
  BY <1>1
<1> HIDE DEF g, l
<1>6. Append(f, 0) \in Seq(Byte) /\ rx \in Seq(Byte)
  <2>1. 1..Limit \subseteq Byte /\ 0 \in Byte
    BY LimitAssumption DEF Byte
  <2>2. f \in Seq(Byte) /\ rx \in Seq(Byte)
    BY <1>1, <1>2, <2>1, WiderSeq
  <2> QED
    BY <2>1, <2>2, AppendProperties
<1>7. TypeOK'
  <2>1. wire' \in Seq(Byte)
    BY <1>1, <1>3, <1>6, ConcatProperties
  <2> QED
    BY <1>1, <1>3, <1>4, <2>1 DEF TypeOK
<1>8. Len(got') <= Len(sent') /\ \A i \in 1..Len(got') : got'[i] = sent'[i]
  <2>1. g <= Len(sent') /\ \A i \in 1..g : got[i] = sent'[i]
    BY <1>1, <1>4, <1>5
  <2> QED
    BY <1>3, <2>1 DEF g
<1>9. ASSUME up PROVE Arrives'
  <2>1. PICK q : Framed(rx \o wire, q, Coming, Missing)
    BY <1>1, <1>9 DEF Arrives
  <2> DEFINE m == Missing
             F == Coming
             G == [i \in 1..m + 1 |-> IF i = m + 1 THEN f ELSE F[i]]
  <2>2. m = l - g /\ m \in Nat /\ \A i \in 1..m : F[i] = Encode(sent[g + i]).frame
    BY <1>1, <1>5 DEF Missing, Coming, g, l
  <2>3. Missing' = m + 1
    BY <1>3, <1>4, <1>5, <2>2 DEF Missing, g
  <2>4. Coming' = G
    <3>1. Coming' = [i \in 1..m + 1 |-> Encode(sent'[g + i]).frame]
      BY <1>3, <2>3 DEF Coming, g
    <3> HIDE DEF m, F
    <3>2. ASSUME NEW i \in 1..m + 1 PROVE Encode(sent'[g + i]).frame = IF i = m + 1 THEN f ELSE F[i]
      <4>1. CASE i = m + 1
        <5>1. g + i = l + 1
          BY <1>5, <2>2, <4>1
        <5>2. sent'[g + i] = msg
          BY <1>4, <5>1
        <5> QED
          BY <4>1, <5>2 DEF f
      <4>2. CASE i # m + 1
        <5>1. i \in 1..m /\ g + i \in 1..l
          BY <1>5, <2>2, <4>2
        <5>2. sent'[g + i] = sent[g + i]
          BY <1>4, <5>1
        <5> QED
          BY <2>2, <4>2, <5>1, <5>2
      <4> QED
        BY <4>1, <4>2
    <3> QED
      BY <3>1, <3>2
  <2>5. rx' \o wire' = (rx \o wire) \o Append(f, 0)
    <3> DEFINE h == Append(f, 0)
    <3>1. h \in Seq(Byte)
      BY <1>6
    <3> HIDE DEF h
    <3>2. (rx \o wire) \o h = rx \o (wire \o h)
      BY <1>1, <1>6, <3>1, ConcatAssociative, SMTT(100)
    <3> QED
      BY <1>3, <3>2 DEF h
  <2> HIDE DEF m, F
  <2>6. \E r : Framed((rx \o wire) \o Append(f, 0), r, G, m + 1)
    <3>1. Framed(rx \o wire, q, F, m)
      BY <2>1 DEF F, m
    <3> QED
      BY <1>2, <3>1, FramedMore
  <2> HIDE DEF G
  <2> QED
    BY <2>3, <2>4, <2>5, <2>6 DEF Arrives
<1> QED
  BY <1>1, <1>3, <1>7, <1>8, <1>9 DEF LinkInv

\* How many messages a read within the capacity completes.
Completes(n, k) ==
    /\ k \in 0..Missing
    /\ Len(got') = Len(got) + k
    /\ \A i \in 1..k : got'[Len(got) + i] = sent[Len(got) + i]
    /\ \A i \in 1..Len(got) : got'[i] = got[i]
    /\ got' \in Seq(Seq(Byte))
    /\ rx' \in Seq(1..Limit) /\ Len(rx') <= Len(rx) + n
    /\ \E q : Framed(rx' \o wire', q, [i \in 1..Missing - k |-> Coming[k + i]], Missing - k)

LEMMA TailType ==
  ASSUME NEW w \in Seq(Byte), NEW n \in Nat
  PROVE  SubSeq(w, n + 1, Len(w)) \in Seq(Byte)
<1> DEFINE a == n + 1
           l == Len(w)
<1>1. a \in Int /\ l \in Int /\ \A j \in a..l : j \in 1..l
  OBVIOUS
<1>2. \A j \in a..l : w[j] \in Byte
  BY <1>1, ElementOfSeq
<1> HIDE DEF a, l
<1>3. SubSeq(w, a, l) \in Seq(Byte)
  BY <1>1, <1>2, SubSeqProperties
<1> QED
  BY <1>3 DEF a, l

LEMMA ReadCompletes ==
  ASSUME LinkInv, NEW n \in 1..Chunk, Read(n), ~(n > Capacity - Len(rx))
  PROVE  \E k : Completes(n, k)
<1> DEFINE g == Len(got)
           l == Len(sent)
           m == Missing
           F == Coming
           u == Arrived(rx, wire, n)
<1>1. /\ sent \in Seq(Message) /\ got \in Seq(Seq(Byte)) /\ wire \in Seq(Byte)
      /\ rx \in Seq(1..Limit) /\ g <= l
  BY DEF LinkInv, TypeOK
<1>2. PICK q : Framed(rx \o wire, q, F, m)
  BY DEF LinkInv, Read, Arrives
<1>3. rx \in Seq(Byte)
  <2>1. 1..Limit \subseteq Byte
    BY LimitAssumption DEF Byte
  <2> QED
    BY <1>1, <2>1, WiderSeq
<1>4. n \in 1..Len(wire)
  BY <1>1 DEF Read
<1>5. PICK k : Reads(rx, wire, n, m, F, k)
  <2> HIDE DEF F, m
  <2> QED
    BY <1>1, <1>2, <1>3, <1>4, ReadsFrames
<1>6. m = l - g /\ m \in Nat /\ k \in 0..m /\ \A i \in 1..m : F[i] = Encode(sent[g + i]).frame
  BY <1>1, <1>5 DEF Missing, Coming, Reads
<1>7. /\ got' = got \o [i \in DOMAIN Frames(u) |-> Decode(Frames(u)[i])]
      /\ rx' = Rest(u) /\ wire' = SubSeq(wire, n + 1, Len(wire))
  BY DEF Read, Deliver, Arrived
<1>8. Frames(u) = [i \in 1..k |-> F[i]]
  BY <1>5 DEF Reads
<1> DEFINE d == [i \in 1..k |-> Decode(F[i])]
<1>9. got' = got \o d
  BY <1>7, <1>8
<1>10. \A i \in 1..k : i \in 1..m /\ g + i \in 1..l
  BY <1>1, <1>6
<1>11. ASSUME NEW i \in 1..k PROVE d[i] = sent[g + i] /\ d[i] \in Seq(Byte)
  <2>1. sent[g + i] \in Message
    BY <1>1, <1>10, ElementOfSeq
  <2>2. F[i] = Encode(sent[g + i]).frame
    BY <1>6, <1>10
  <2>3. d[i] = Decode(F[i])
    OBVIOUS
  <2>4. Decode(Encode(sent[g + i]).frame) = sent[g + i]
    BY <2>1, MessageEncodes
  <2> HIDE DEF d, F
  <2>5. d[i] = sent[g + i]
    BY <2>2, <2>3, <2>4
  <2> QED
    BY <2>1, <2>5, MessageBytes
<1>12. d \in Seq(Seq(Byte)) /\ Len(d) = k
  <2> DEFINE S == Seq(Byte)
  <2>1. k \in Nat /\ d = [i \in 1..k |-> d[i]]
    BY <1>6
  <2>2. \A i \in 1..k : d[i] \in S
    BY <1>11
  <2> HIDE DEF d, S
  <2>3. d \in [1..k -> S]
    BY <2>1, <2>2
  <2>4. k \in Nat
    BY <2>1
  <2>5. d \in Seq(S) /\ Len(d) = k
    BY <2>3, <2>4, TupleSeq
  <2> QED
    BY <2>5 DEF S
<1> HIDE DEF d
<1>13. /\ got' \in Seq(Seq(Byte)) /\ Len(got') = g + k
       /\ (\A i \in 1..g : got'[i] = got[i])
       /\ \A i \in 1..k : got'[g + i] = sent[g + i]
  <2> DEFINE S == Seq(Byte)
             o == got \o d
  <2>1. got \in Seq(S) /\ d \in Seq(S)
    BY <1>1, <1>12
  <2>2. g \in Nat /\ k \in Nat
    BY <1>1, <1>6
  <2> HIDE DEF S
  <2>3. /\ o \in Seq(S) /\ Len(o) = g + Len(d)
        /\ \A i \in 1..g + Len(d) : o[i] = IF i <= g THEN got[i] ELSE d[i - g]
    BY <2>1, ConcatProperties
  <2> HIDE DEF o, g
  <2>4. Len(o) = g + k /\ \A i \in 1..g + k : o[i] = IF i <= g THEN got[i] ELSE d[i - g]
    BY <1>12, <2>3
  <2>5. \A i \in 1..g : o[i] = got[i]
    BY <2>2, <2>4
  <2>6. ASSUME NEW i \in 1..k PROVE o[g + i] = sent[g + i]
    <3> DEFINE h == g + i
    <3>1. h \in 1..g + k /\ ~(h <= g) /\ h - g = i
      BY <2>2
    <3>2. d[i] = sent[h]
      BY <1>11
    <3> HIDE DEF h
    <3>3. o[h] = d[i]
      BY <2>4, <3>1
    <3> QED
      BY <3>2, <3>3 DEF h
  <2>7. got' = o
    BY <1>9 DEF o
  <2> QED
    BY <2>3, <2>4, <2>5, <2>6, <2>7 DEF S
<1>14. rx' \in Seq(1..Limit) /\ Len(rx') <= Len(rx) + n
  BY <1>5, <1>7 DEF Reads
<1>15. \E r : Framed(rx' \o wire', r, [i \in 1..m - k |-> F[k + i]], m - k)
  BY <1>5, <1>7 DEF Reads
<1> QED
  BY <1>6, <1>13, <1>14, <1>15 DEF Completes

LEMMA LinkRead ==
  ASSUME LinkInv, NEW n \in 1..Chunk, Read(n)
  PROVE  LinkInv'
<1>1. /\ sent \in Seq(Message) /\ got \in Seq(Seq(Byte)) /\ wire \in Seq(Byte)
      /\ rx \in Seq(1..Limit) /\ Len(rx) <= Capacity /\ up \in BOOLEAN /\ error = FALSE
      /\ Len(got) <= Len(sent) /\ \A i \in 1..Len(got) : got[i] = sent[i]
  BY DEF LinkInv, TypeOK
<1>2. sent' = sent /\ error' = error /\ n \in Nat
  BY DEF Read
<1>3. wire' \in Seq(Byte)
  BY <1>1, <1>2, TailType DEF Read
<1>4. CASE n > Capacity - Len(rx)
  <2>1. up' = FALSE /\ rx' = rx /\ got' = got
    BY <1>4 DEF Read
  <2> QED
    BY <1>1, <1>2, <1>3, <2>1 DEF LinkInv, TypeOK
<1>5. CASE ~(n > Capacity - Len(rx))
  <2> DEFINE g == Len(got)
             l == Len(sent)
             m == Missing
  <2>1. PICK k : Completes(n, k)
    BY <1>5, ReadCompletes
  <2>2. up' = up
    BY <1>5 DEF Read
  <2>3. m = l - g /\ g \in Nat /\ l \in Nat /\ g <= l /\ k \in 0..m
    BY <1>1, <2>1 DEF Missing, Completes
  <2>4. /\ Len(got') = g + k /\ (\A i \in 1..k : got'[g + i] = sent[g + i])
        /\ (\A i \in 1..g : got'[i] = got[i])
        /\ got' \in Seq(Seq(Byte)) /\ rx' \in Seq(1..Limit) /\ Len(rx') <= Len(rx) + n
    BY <2>1 DEF Completes
  <2>5. TypeOK'
    <3>1. Len(rx') <= Capacity
      BY <1>1, <1>2, <1>5, <2>4, SizesAssumption
    <3> QED
      BY <1>1, <1>2, <1>3, <2>2, <2>4, <3>1 DEF TypeOK
  <2> HIDE DEF g, l, m
  <2>6. Len(got') <= Len(sent')
    BY <1>2, <2>3, <2>4 DEF l
  <2>7. ASSUME NEW i \in 1..g + k PROVE got'[i] = sent[i]
    <3>1. CASE i <= g
      BY <1>1, <2>3, <2>4, <3>1 DEF g
    <3>2. CASE ~(i <= g)
      <4> DEFINE h == i - g
      <4>1. h \in 1..k /\ i = g + h
        BY <2>3, <3>2
      <4> HIDE DEF h
      <4> QED
        BY <2>4, <4>1
    <3> QED
      BY <3>1, <3>2
  <2>8. Missing' = m - k
    BY <1>2, <2>3, <2>4 DEF Missing, l
  <2>9. Coming' = [i \in 1..m - k |-> Coming[k + i]]
    <3>1. Coming' = [i \in 1..m - k |-> Encode(sent[Len(got') + i]).frame]
      BY <1>2, <2>8 DEF Coming
    <3>2. ASSUME NEW i \in 1..m - k PROVE Encode(sent[Len(got') + i]).frame = Coming[k + i]
      <4>1. k + i \in 1..m /\ Len(got') + i = g + (k + i)
        BY <2>3, <2>4
      <4>2. Coming[k + i] = Encode(sent[g + (k + i)]).frame
        BY <4>1 DEF Coming, g, m
      <4> QED
        BY <4>1, <4>2
    <3> QED
      BY <3>1, <3>2
  <2>10. Arrives'
    <3>1. \E q : Framed(rx' \o wire', q, [i \in 1..m - k |-> Coming[k + i]], m - k)
      BY <2>1 DEF Completes, m
    <3> QED
      BY <2>8, <2>9, <3>1 DEF Arrives
  <2> QED
    BY <1>1, <1>2, <2>4, <2>5, <2>6, <2>7, <2>10 DEF LinkInv
<1> QED
  BY <1>4, <1>5

LEMMA LinkNext == LinkInv /\ [Next]_vars => LinkInv'
<1> SUFFICES ASSUME LinkInv, [Next]_vars PROVE LinkInv'
  OBVIOUS
<1>1. CASE \E msg \in Message : Send(msg)
  BY <1>1, LinkSend
<1>2. CASE \E n \in 1..Chunk : Read(n)
  BY <1>2, LinkRead
<1>3. CASE UNCHANGED vars
  BY <1>3 DEF vars, LinkInv, TypeOK, Arrives, Coming, Missing
<1> QED
  BY <1>1, <1>2, <1>3 DEF Next

LEMMA LinkHolds == Spec => []LinkInv
<1>1. Init => LinkInv
  BY LinkInit
<1>2. LinkInv /\ [Next]_vars => LinkInv'
  BY LinkNext
<1> QED
  BY <1>1, <1>2, PTL DEF Spec

-----------------------------------------------------------------------------
(***************************************************************************)
(* Theorems.                                                               *)
(***************************************************************************)

\* What a peer receives are bytes, and rx_buffer never holds more than its
\* size nor, between two reads, a complete frame (util.hpp:88-122).
THEOREM TypeCorrect == Spec => []TypeOK
<1>1. LinkInv => TypeOK
  BY DEF LinkInv
<1> QED
  BY <1>1, LinkHolds, PTL

LEMMA NoZeros ==
  ASSUME NEW f \in Seq(1..Limit)
  PROVE  Ends(f) = {}
<1>1. \A x \in 1..Len(f) : f[x] \in 1..Limit
  BY ElementOfSeq
<1> QED
  BY <1>1 DEF Ends

\* cobs_send never returns ENCODING_ERROR: the room it provides is enough for
\* a message of any length, and its frame has no zero (util.cpp:50-60).
THEOREM FramesFit == Spec => []EncodingFits
<1>1. LinkInv => EncodingFits
  <2> SUFFICES ASSUME LinkInv, NEW i \in 1..Len(sent) PROVE ~error /\ Ends(Encode(sent[i]).frame) = {}
    BY DEF EncodingFits, LinkInv
  <2>1. sent[i] \in Message
    BY ElementOfSeq DEF LinkInv, TypeOK
  <2>2. Encode(sent[i]).frame \in Seq(1..Limit)
    BY <2>1, MessageEncodes
  <2> QED
    BY <2>2, NoZeros DEF LinkInv
<1> QED
  BY <1>1, LinkHolds, PTL

LEMMA ReadDelivers ==
  ASSUME LinkInv, LinkInv', NEW n \in 1..Chunk, Read(n)
  PROVE  Promise!Deliver \/ UNCHANGED <<sent, got>>
<1> DEFINE g == Len(got)
           l == Len(sent)
<1>1. /\ sent \in Seq(Message) /\ got \in Seq(Seq(Byte)) /\ sent' = sent
      /\ got' \in Seq(Seq(Byte)) /\ Len(got') <= Len(sent')
      /\ \A i \in 1..Len(got') : got'[i] = sent'[i]
  BY DEF LinkInv, TypeOK, Read
<1>2. CASE n > Capacity - Len(rx)
  BY <1>2 DEF Read
<1>3. CASE ~(n > Capacity - Len(rx))
  <2>1. PICK k : Completes(n, k)
    BY <1>3, ReadCompletes
  <2>2. k \in 0..l - g /\ Len(got') = g + k /\ \A i \in 1..g : got'[i] = got[i]
    BY <2>1 DEF Completes, Missing
  <2> DEFINE e == Len(got')
  <2>3. g \in Nat /\ l \in Nat /\ e \in Nat /\ e <= l
    BY <1>1
  <2>4. got' = SubSeq(sent, 1, e)
    <3> DEFINE S == Seq(Byte)
               c == SubSeq(sent, 1, e)
    <3>1. \A i \in 1..e : sent[i] \in S
      <4>1. \A i \in 1..e : got'[i] \in S
        BY <1>1, ElementOfSeq
      <4> QED
        BY <1>1, <4>1
    <3> HIDE DEF S
    <3>2. /\ SubSeq(sent, 1, e) \in Seq(S)
          /\ Len(SubSeq(sent, 1, e)) = IF 1 <= e THEN e - 1 + 1 ELSE 0
          /\ \A i \in 1..e - 1 + 1 : SubSeq(sent, 1, e)[i] = sent[1 + i - 1]
      <4>1. 1 \in Int /\ e \in Int
        BY <2>3
      <4> QED
        BY <3>1, <4>1, SubSeqProperties
    <3> HIDE DEF c
    <3>3. c \in Seq(S) /\ Len(c) = e /\ \A i \in 1..e : c[i] = sent[i]
      <4> HIDE DEF e
      <4>1. e - 1 + 1 = e /\ (1 <= e \/ e = 0) /\ \A i \in 1..e : 1 + i - 1 = i
        BY <2>3
      <4> QED
        BY <3>2, <4>1 DEF c
    <3>4. got' \in Seq(S) /\ \A i \in 1..Len(got') : got'[i] = c[i]
      BY <1>1, <3>3 DEF S
    <3>5. got' = c
      BY <3>3, <3>4, SeqEqual
    <3> QED
      BY <3>5 DEF c
  <2>5. CASE k = 0
    <3>1. got \in Seq(Seq(Byte)) /\ Len(got') = Len(got)
      BY <1>1, <2>2, <2>3, <2>5
    <3>2. \A i \in 1..Len(got') : got'[i] = got[i]
      BY <2>2, <3>1
    <3> DEFINE S == Seq(Byte)
    <3>3. got \in Seq(S) /\ got' \in Seq(S)
      BY <1>1
    <3> HIDE DEF S
    <3>4. got' = got
      BY <3>1, <3>2, <3>3, SeqEqual
    <3> QED
      BY <1>1, <3>4
  <2>6. CASE k # 0
    <3>1. e \in g + 1..l
      <4> HIDE DEF g, l
      <4> QED
        BY <2>2, <2>3, <2>6
    <3> QED
      BY <1>1, <2>4, <3>1 DEF Promise!Deliver
  <2> QED
    BY <2>5, <2>6
<1> QED
  BY <1>2, <1>3

\* Whatever TCP does to the bytes, the messages of a peer arrive whole, as
\* they were sent, in order and once (cobs.hpp:26-131, util.hpp:104-121).
THEOREM ImplementsChannel == Spec => ChannelSpec
<1>1. Init => Promise!Init
  BY DEF Init, Promise!Init
<1>2. LinkInv /\ LinkInv' /\ [Next]_vars => [Promise!Next]_<<sent, got>>
  <2> SUFFICES ASSUME LinkInv, LinkInv', [Next]_vars
               PROVE  Promise!Next \/ UNCHANGED <<sent, got>>
    OBVIOUS
  <2>1. ASSUME NEW msg \in Message, Send(msg) PROVE Promise!Send(msg)
    BY <2>1, MessageEncodes DEF Send, Promise!Send
  <2>2. ASSUME NEW n \in 1..Chunk, Read(n) PROVE Promise!Deliver \/ UNCHANGED <<sent, got>>
    BY <2>2, ReadDelivers
  <2>3. CASE UNCHANGED vars
    BY <2>3 DEF vars
  <2> QED
    BY <2>1, <2>2, <2>3 DEF Next, Promise!Next
<1> QED
  BY <1>1, <1>2, LinkHolds, PTL DEF Spec, ChannelSpec, Promise!Spec, Promise!channelVars

\* The sum that Waiting forms.
Sums(W, from) ==
    /\ W[0] = 0
    /\ \A n \in 1..Len(sent) :
         W[n] = IF n < from THEN 0 ELSE W[n - 1] + Len(Encode(sent[n]).frame) + 1

LEMMA WaitingSums ==
  ASSUME sent \in Seq(Message), NEW from \in Nat \ {0}
  PROVE  \E W : Waiting(from) = W[Len(sent)] /\ Sums(W, from)
<1> DEFINE N == Len(sent)
           sum[n \in 0..N] ==
             IF n < from THEN 0 ELSE sum[n - 1] + Len(Encode(sent[n]).frame) + 1
           d == [n \in 1..N |-> Len(Encode(sent[n]).frame)]
           step == [n \in 1..N |-> [x \in Nat |-> IF n < from THEN 0 ELSE x + d[n] + 1]]
<1>1. N \in Nat /\ \A n \in 1..N : sent[n] \in Message
  BY ElementOfSeq
<1>2. d \in [1..N -> Nat]
  <2>1. ASSUME NEW n \in 1..N PROVE Len(Encode(sent[n]).frame) \in Nat
    BY <1>1, MessageEncodes
  <2> QED
    BY <2>1
<1>3. step \in [1..N -> [Nat -> Nat]]
  <2> HIDE DEF d
  <2> QED
    BY <1>2
<1>4. PICK f \in [0..N -> Nat] : Follows(f, N, 0, step)
  <2> HIDE DEF step, N
  <2> QED
    BY <1>1, <1>3, Recursion
<1>5. ASSUME NEW n \in 1..N
      PROVE  f[n] = IF n < from THEN 0 ELSE f[n - 1] + Len(Encode(sent[n]).frame) + 1
  <2>1. f[n - 1] \in Nat
    BY <1>1
  <2>2. f[n] = step[n][f[n - 1]]
    BY <1>4 DEF Follows
  <2>3. d[n] = Len(Encode(sent[n]).frame)
    OBVIOUS
  <2> HIDE DEF d, N
  <2> QED
    BY <2>1, <2>2, <2>3
<1>6. f[0] = 0
  BY <1>4 DEF Follows
<1>7. f = [n \in 0..N |->
             IF n < from THEN 0 ELSE f[n - 1] + Len(Encode(sent[n]).frame) + 1]
  <2> HIDE DEF N, step
  <2> QED
    BY <1>1, <1>5, <1>6
<1>8. sum = [n \in 0..N |->
               IF n < from THEN 0 ELSE sum[n - 1] + Len(Encode(sent[n]).frame) + 1]
  BY <1>7, Zenon
<1>9. Waiting(from) = sum[N]
  BY DEF Waiting
<1> HIDE DEF sum, N
<1>10. sum[0] = 0
  BY <1>1, <1>8
<1>11. \A n \in 1..N :
         sum[n] = IF n < from THEN 0 ELSE sum[n - 1] + Len(Encode(sent[n]).frame) + 1
  BY <1>1, <1>8
<1>12. Sums(sum, from)
  BY <1>10, <1>11 DEF Sums, N
<1> QED
  BY <1>9, <1>12 DEF N

\* While the receiver runs, what waits is what is in rx_buffer and on its way.
LEMMA WaitingIsStream ==
  ASSUME LinkInv, up
  PROVE  Waiting(Len(got) + 1) = Len(rx) + Len(wire)
<1> DEFINE g == Len(got)
           N == Len(sent)
           m == Missing
           from == g + 1
<1>1. /\ sent \in Seq(Message) /\ got \in Seq(Seq(Byte)) /\ g <= N
      /\ wire \in Seq(Byte) /\ rx \in Seq(1..Limit)
  BY DEF LinkInv, TypeOK
<1>2. PICK q : Framed(rx \o wire, q, Coming, m)
  BY DEF LinkInv, Arrives
<1>3. g \in Nat /\ N \in Nat /\ m = N - g /\ m \in Nat /\ from \in Nat \ {0}
  BY <1>1 DEF Missing
<1>4. PICK sum : Waiting(from) = sum[N] /\ Sums(sum, from)
  <2> HIDE DEF from
  <2> QED
    BY <1>1, <1>3, WaitingSums
<1>5. /\ sum[0] = 0
      /\ \A n \in 1..N : sum[n] = IF n < from THEN 0 ELSE sum[n - 1] + Len(Encode(sent[n]).frame) + 1
  BY <1>4 DEF Sums
<1>6. \A i \in 1..m : Coming[i] = Encode(sent[g + i]).frame
  BY DEF Coming
<1> DEFINE T == {i \in 0..m : sum[g + i] = q[i]}
<1> HIDE DEF N, g, m, from
<1>7. 0 \in T
  <2>1. sum[g] = 0
    <3>1. CASE g = 0
      BY <1>5, <3>1
    <3>2. CASE g # 0
      <4>1. g \in 1..N /\ g < from
        BY <1>1, <1>3, <3>2 DEF g, N, from
      <4> QED
        BY <1>5, <4>1
    <3> QED
      BY <3>1, <3>2
  <2>2. q[0] = 0 /\ g + 0 = g /\ 0 \in 0..m
    BY <1>2, <1>3 DEF Framed, m
  <2> QED
    BY <2>1, <2>2
<1>8. ASSUME NEW i \in 0..m - 1, i \in T PROVE i + 1 \in T
  <2> DEFINE n == g + (i + 1)
             c == Len(Encode(sent[n]).frame)
  <2>1. n \in 1..N /\ ~(n < from) /\ n - 1 = g + i /\ i + 1 \in 1..m /\ i + 1 \in 0..m /\ i + 1 - 1 = i
    BY <1>3 DEF from
  <2>2. q[i + 1] = q[i] + Len(Coming[i + 1]) + 1
    <3>1. \A j \in 1..m : q[j] = q[j - 1] + Len(Coming[j]) + 1
      BY <1>2 DEF Framed, m
    <3> QED
      BY <2>1, <3>1
  <2>3. Coming[i + 1] = Encode(sent[n]).frame
    BY <1>6, <2>1
  <2> HIDE DEF n
  <2>4. sum[n] = sum[n - 1] + c + 1
    BY <1>5, <2>1
  <2>5. sum[n - 1] = q[i]
    BY <1>8, <2>1
  <2>6. sum[n] = q[i + 1]
    BY <2>2, <2>3, <2>4, <2>5
  <2> QED
    BY <2>1, <2>6 DEF n
<1>9. m \in T
  <2> HIDE DEF T
  <2>1. m \in Nat /\ \A i \in 0..m - 1 : i \in T => i + 1 \in T
    BY <1>3, <1>8
  <2>2. \A i \in 0..m : i \in T
    BY <1>7, <2>1, Induction
  <2> QED
    BY <2>1, <2>2
<1>10. sum[N] = q[m]
  <2>1. g + m = N
    BY <1>3
  <2> QED
    BY <1>9, <2>1
<1>11. q[m] = Len(rx) + Len(wire)
  <2>1. rx \in Seq(Byte)
    <3>1. 1..Limit \subseteq Byte
      BY LimitAssumption DEF Byte
    <3> QED
      BY <1>1, <3>1, WiderSeq
  <2>2. q[m] = Len(rx \o wire)
    BY <1>2 DEF Framed, m
  <2> QED
    BY <1>1, <2>1, <2>2, ConcatProperties
<1> QED
  BY <1>4, <1>10, <1>11 DEF from, g

\* A unit or a hub is ended by its peer only if more bytes than rx_buffer
\* holds were waiting for it (util.hpp:93-99).
THEOREM AbortsOnlyOnBursts == Spec => AbortsOnBurstOnly
<1>1. LinkInv /\ [Next]_vars => [up /\ ~up' => Waiting(Len(got) + 1) > Capacity]_vars
  <2> SUFFICES ASSUME LinkInv, Next, up, ~up' PROVE Waiting(Len(got) + 1) > Capacity
    BY DEF vars
  <2>1. PICK n \in 1..Chunk : Read(n)
    BY DEF Next, Send
  <2>2. n > Capacity - Len(rx) /\ n <= Len(wire) /\ n \in Nat
    <3>1. CASE n > Capacity - Len(rx)
      BY <2>1, <3>1 DEF Read
    <3>2. CASE ~(n > Capacity - Len(rx))
      <4>1. up' = up
        BY <2>1, <3>2 DEF Read
      <4> QED
        BY <4>1, Zenon
    <3> QED
      BY <3>1, <3>2
  <2>3. Len(rx) \in Nat /\ Len(wire) \in Nat /\ Capacity \in Nat
    BY SizesAssumption DEF LinkInv, TypeOK
  <2>4. Len(rx) + Len(wire) > Capacity
    BY <2>2, <2>3
  <2> QED
    BY <2>4, WaitingIsStream
<1> QED
  BY <1>1, LinkHolds, PTL DEF Spec, AbortsOnBurstOnly
=============================================================================
