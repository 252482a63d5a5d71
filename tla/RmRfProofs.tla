----------------------------- MODULE RmRfProofs -----------------------------
(***************************************************************************)
(* RmRf implements TreeRemoval for every tree, every depth of the array,   *)
(* every size of the buffer in which the path of the directory fits, and   *)
(* any changes by others.  What matters is that the string begins with     *)
(* that path and a slash as long as the walk goes on, so that whatever it  *)
(* names is inside, and that it is longer than that unless the directory   *)
(* itself is at hand.  Then, along the whole walk, what the buffer and the *)
(* stack say about the tree: the buffer names the innermost directory, and *)
(* the array is full only for a directory that is too deep.                *)
(***************************************************************************)
EXTENDS RmRf, WellFoundedInduction, TLAPS

-----------------------------------------------------------------------------
\* Trees.

LEMMA NodeIsSeq == \A n \in Node : n \in Seq(Name) /\ Len(n) \in 0..Height
  BY HeightAssumption DEF Node, Removal!Node

LEMMA RootIsNode == <<>> \in Node
  BY HeightAssumption DEF Node, Removal!Node

LEMMA NodeParent ==
  ASSUME NEW n \in Node, n # <<>>
  PROVE  /\ Removal!Parent(n) \in Node
         /\ n[Len(n)] \in Name
         /\ Append(Removal!Parent(n), n[Len(n)]) = n
         /\ Removal!Parent(n) # n
<1>1. PICK h \in 0..Height : n \in [1..h -> Name]
  BY DEF Node, Removal!Node
<1>2. h \in Nat /\ h # 0 /\ Len(n) = h /\ n \in Seq(Name)
  BY <1>1, HeightAssumption
<1>3. n[Len(n)] \in Name
  BY <1>1, <1>2
<1>4. /\ Removal!Parent(n) \in [1..(h - 1) -> Name]
      /\ Len(Removal!Parent(n)) = h - 1
      /\ \A i \in 1..(h - 1) : Removal!Parent(n)[i] = n[i]
  <2>1. Removal!Parent(n) = SubSeq(n, 1, h - 1)
    BY <1>2 DEF Removal!Parent
  <2>2. /\ SubSeq(n, 1, h - 1) \in Seq(Name)
        /\ Len(SubSeq(n, 1, h - 1)) = h - 1
        /\ \A i \in 1..(h - 1) : SubSeq(n, 1, h - 1)[i] = n[i]
    BY <1>2
  <2>3. ASSUME NEW m \in Seq(Name), Len(m) = h - 1 PROVE m \in [1..(h - 1) -> Name]
    BY <2>3
  <2> QED BY <2>1, <2>2, <2>3
<1>5. Removal!Parent(n) \in Node
  BY <1>2, <1>4, HeightAssumption DEF Node, Removal!Node
<1>6. Append(Removal!Parent(n), n[Len(n)]) = n
  <2> DEFINE m == Append(Removal!Parent(n), n[Len(n)])
  <2>1. Removal!Parent(n) \in Seq(Name)
    BY <1>2, <1>4
  <2>2. m \in Seq(Name) /\ Len(m) = h
    BY <2>1, <1>2, <1>3, <1>4
  <2>3. \A i \in 1..h : m[i] = n[i]
    BY <2>1, <1>2, <1>3, <1>4
  <2> QED BY <2>2, <2>3, <1>2
<1>7. Removal!Parent(n) # n
  BY <1>2, <1>4
<1> QED BY <1>3, <1>5, <1>6, <1>7

LEMMA AppendParent ==
  ASSUME NEW n \in Node, NEW x \in Name
  PROVE  Append(n, x) # <<>> /\ Removal!Parent(Append(n, x)) = n
<1>1. n \in Seq(Name) /\ Len(n) \in Nat
  BY NodeIsSeq
<1>2. Len(Append(n, x)) = Len(n) + 1
  BY <1>1
<1>3. Removal!Parent(Append(n, x)) = SubSeq(Append(n, x), 1, Len(n))
  BY <1>1, <1>2 DEF Removal!Parent
<1>4. SubSeq(Append(n, x), 1, Len(n)) = n
  <2> DEFINE m == SubSeq(Append(n, x), 1, Len(n))
  <2>1. m \in Seq(Name) /\ Len(m) = Len(n)
    BY <1>1, <1>2
  <2>2. \A i \in 1..Len(n) : m[i] = n[i]
    BY <1>1, <1>2
  <2> QED BY <1>1, <2>1, <2>2
<1> QED BY <1>1, <1>2, <1>3, <1>4

LEMMA AppendLength ==
  ASSUME NEW m \in Seq(Name), NEW x, Append(m, x) \in Node
  PROVE  x \in Name /\ Len(Append(m, x)) = Len(m) + 1
<1>1. Len(Append(m, x)) = Len(m) + 1 /\ Append(m, x)[Len(m) + 1] = x /\ Len(m) \in Nat
  OBVIOUS
<1>2. Append(m, x) \in Seq(Name)
  BY NodeIsSeq
<1>3. Append(m, x)[Len(m) + 1] \in Name
  BY <1>1, <1>2
<1> QED BY <1>1, <1>3

LEMMA OnlyDirectoriesHaveEntries ==
  ASSUME NEW t, Removal!IsTree(t), NEW n \in Node, t[n] # "dir"
  PROVE  Removal!Entries(t, n) = {}
<1> SUFFICES ASSUME NEW x \in Removal!Entries(t, n) PROVE FALSE
  OBVIOUS
<1>1. x \in Name /\ Append(n, x) \in Node /\ t[Append(n, x)] # "none"
  BY DEF Removal!Entries, Node
<1>2. t[Removal!Parent(Append(n, x))] = "dir"
  BY <1>1, AppendParent DEF Removal!IsTree, Node
<1> QED BY <1>1, <1>2, AppendParent

LEMMA RemovalLeavesTree ==
  ASSUME NEW t, Removal!IsTree(t), NEW n \in Node, Removal!Entries(t, n) = {}
  PROVE  Removal!IsTree([t EXCEPT ![n] = "none"])
<1> DEFINE u == [t EXCEPT ![n] = "none"]
<1>1. t \in [Node -> Removal!Kind] /\ u \in [Node -> Removal!Kind]
  BY DEF Removal!IsTree, Removal!Kind, Node
<1>2. ASSUME NEW k \in Node \ {<<>>}, u[k] # "none"
      PROVE  u[Removal!Parent(k)] = "dir"
  <2>1. k # n /\ t[k] # "none"
    BY <1>1, <1>2
  <2>2. t[Removal!Parent(k)] = "dir"
    BY <2>1 DEF Removal!IsTree, Node
  <2>3. Removal!Parent(k) # n
    <3> SUFFICES ASSUME Removal!Parent(k) = n PROVE FALSE
      OBVIOUS
    <3>1. k[Len(k)] \in Name /\ Append(n, k[Len(k)]) = k
      BY NodeParent
    <3>2. k[Len(k)] \in Removal!Entries(t, n)
      BY <3>1, <2>1 DEF Removal!Entries, Node
    <3> QED BY <3>2
  <2> QED BY <1>1, <2>2, <2>3, NodeParent
<1> QED BY <1>1, <1>2 DEF Removal!IsTree, Node

LEMMA CreationLeavesTree ==
  ASSUME NEW t, Removal!IsTree(t), NEW n \in Node, n # <<>>,
         t[n] = "none", t[Removal!Parent(n)] = "dir"
  PROVE  Removal!IsTree([t EXCEPT ![n] = "file"])
<1> DEFINE u == [t EXCEPT ![n] = "file"]
<1>1. t \in [Node -> Removal!Kind] /\ u \in [Node -> Removal!Kind]
  BY DEF Removal!IsTree, Removal!Kind, Node
<1>2. ASSUME NEW k \in Node \ {<<>>}, u[k] # "none"
      PROVE  u[Removal!Parent(k)] = "dir"
  <2>1. t[Removal!Parent(k)] = "dir" /\ Removal!Parent(k) \in Node
    BY <1>1, <1>2, NodeParent DEF Removal!IsTree, Node
  <2> QED BY <1>1, <2>1
<1> QED BY <1>1, <1>2 DEF Removal!IsTree, Node

-----------------------------------------------------------------------------
\* Paths.

\* Induction on lengths: a set of numbers that is not empty has a least one.
LEMMA LeastNumber ==
  ASSUME NEW T \in SUBSET Nat, T # {}
  PROVE  \E n \in T : \A m \in T : n <= m
<1>1. IsWellFoundedOn(OpToRel(<, Nat), Nat)
  BY NatLessThanWellFounded, Zenon
<1>2. PICK n \in T : \A m \in T : ~(<<m, n>> \in OpToRel(<, Nat))
  BY <1>1, WFMin, Zenon
<1>3. ASSUME NEW m \in T PROVE n <= m
  <2>1. ~(m < n)
    BY <1>2 DEF OpToRel
  <2> QED BY <2>1
<1> QED BY <1>3

\* The path of an entry: that of its directory, a slash, a name without one.
LEMMA PathParts ==
  ASSUME NEW n \in Node, n # <<>>
  PROVE  /\ Path[Removal!Parent(n)] \in Seq(Char)
         /\ n[Len(n)] \in Seq(Char)
         /\ Len(n[Len(n)]) \in Nat \ {0}
         /\ Len(Path[n]) = Len(Path[Removal!Parent(n)]) + 1 + Len(n[Len(n)])
         /\ \A i \in 1..Len(Path[Removal!Parent(n)]) :
              Path[n][i] = Path[Removal!Parent(n)][i]
         /\ Path[n][Len(Path[Removal!Parent(n)]) + 1] = Slash
         /\ \A i \in 1..Len(n[Len(n)]) :
              /\ Path[n][Len(Path[Removal!Parent(n)]) + 1 + i] = n[Len(n)][i]
              /\ n[Len(n)][i] # Slash
<1> DEFINE p == Path[Removal!Parent(n)]
           x == n[Len(n)]
           q == Path[n]
<1>1. Removal!Parent(n) \in Node /\ x \in Name
  BY NodeParent
<1>2. p \in Seq(Char) /\ q \in Seq(Char) /\ q = p \o <<Slash>> \o x
  BY <1>1, PathAssumption
<1>3. x \in Seq(Char) /\ x # <<>> /\ \A i \in 1..Len(x) : x[i] # Slash
  BY <1>1, NameAssumption
<1>4. Slash \in Char
  BY NameAssumption
<1> HIDE DEF p, x, q
<1>5. Len(q) = Len(p) + 1 + Len(x) /\ Len(p) \in Nat /\ Len(x) \in Nat \ {0}
  BY <1>2, <1>3, <1>4
<1>6. \A i \in 1..Len(p) : q[i] = p[i]
  BY <1>2, <1>3, <1>4
<1>7. q[Len(p) + 1] = Slash
  BY <1>2, <1>3, <1>4
<1>8. \A i \in 1..Len(x) : q[Len(p) + 1 + i] = x[i]
  BY <1>2, <1>3, <1>4
<1> QED BY <1>2, <1>3, <1>5, <1>6, <1>7, <1>8 DEF p, x, q

\* Below the root paths are longer than the root's.
LEMMA PathBounds ==
  ASSUME NEW n \in Node
  PROVE  /\ Path[n] \in Seq(Char) /\ Len(Path[n]) \in Nat /\ Len(Path[n]) >= Len(Root)
         /\ n # <<>> => Len(Path[n]) > Len(Root) + 1
<1>1. \A m \in Node : Path[m] \in Seq(Char) /\ Len(Path[m]) \in Nat
  BY PathAssumption
<1>2. Len(Root) \in Nat /\ Path[<<>>] = Root
  BY PathAssumption, CapacityAssumption
<1> DEFINE T == {k \in Nat : \E m \in Node : Len(m) = k /\ Len(Path[m]) < Len(Root)}
<1>3. T = {}
  <2> SUFFICES ASSUME T # {} PROVE FALSE
    OBVIOUS
  <2>1. PICK k \in T : \A j \in T : k <= j
    <3> HIDE DEF T
    <3>1. T \in SUBSET Nat
      BY DEF T
    <3> QED BY <3>1, LeastNumber
  <2>2. PICK m \in Node : Len(m) = k /\ Len(Path[m]) < Len(Root)
    BY <2>1
  <2>3. m # <<>>
    BY <1>2, <2>2
  <2>4. /\ Removal!Parent(m) \in Node /\ m \in Seq(Name)
        /\ Len(Removal!Parent(m)) = k - 1 /\ k - 1 \in Nat
    <3>1. m = Append(Removal!Parent(m), m[Len(m)]) /\ Removal!Parent(m) \in Node
          /\ m[Len(m)] \in Name
      BY <2>3, NodeParent
    <3>2. Removal!Parent(m) \in Seq(Name) /\ m \in Seq(Name)
      BY <3>1, NodeIsSeq
    <3> QED BY <3>1, <3>2, <2>2
  <2>5. Len(Path[Removal!Parent(m)]) < Len(Root)
    <3>1. /\ Len(Path[m]) = Len(Path[Removal!Parent(m)]) + 1 + Len(m[Len(m)])
          /\ Len(m[Len(m)]) \in Nat
      BY <2>3, PathParts
    <3> QED BY <1>1, <1>2, <2>2, <2>4, <3>1
  <2>6. k - 1 \in T
    BY <2>4, <2>5
  <2> QED BY <2>1, <2>4, <2>6
<1>4. \A m \in Node : Len(Path[m]) >= Len(Root)
  <2> SUFFICES ASSUME NEW m \in Node, ~(Len(Path[m]) >= Len(Root)) PROVE FALSE
    OBVIOUS
  <2>1. Len(Path[m]) < Len(Root) /\ Len(m) \in Nat
    BY <1>1, <1>2, NodeIsSeq, HeightAssumption
  <2>2. Len(m) \in T
    BY <2>1
  <2> QED BY <1>3, <2>2
<1>5. n # <<>> => Len(Path[n]) > Len(Root) + 1
  <2> SUFFICES ASSUME n # <<>> PROVE Len(Path[n]) > Len(Root) + 1
    OBVIOUS
  <2>1. Removal!Parent(n) \in Node
    BY NodeParent
  <2>2. Len(Path[Removal!Parent(n)]) >= Len(Root)
    BY <1>4, <2>1
  <2>3. /\ Len(Path[n]) = Len(Path[Removal!Parent(n)]) + 1 + Len(n[Len(n)])
        /\ Len(n[Len(n)]) \in Nat \ {0}
    BY PathParts
  <2>4. Len(Path[Removal!Parent(n)]) \in Nat /\ Len(Path[n]) \in Nat
    BY <1>1, <2>1
  <2>5. \A a, b \in Nat, x \in Nat \ {0} : a >= b => a + 1 + x > b + 1
    OBVIOUS
  <2> QED BY <1>2, <2>2, <2>3, <2>4, <2>5
<1> QED BY <1>1, <1>4, <1>5

LEMMA SameString ==
  ASSUME NEW s \in Seq(Char), NEW t \in Seq(Char), Len(s) = Len(t),
         \A i \in 1..Len(s) : s[i] = t[i]
  PROVE  s = t
OBVIOUS

\* Different nodes have different paths.
LEMMA PathInjective ==
  ASSUME NEW n \in Node, NEW m \in Node, Path[n] = Path[m]
  PROVE  n = m
<1> DEFINE T == {k \in Nat : \E a, b \in Node : Len(a) = k /\ a # b /\ Path[a] = Path[b]}
<1> SUFFICES T = {}
  BY NodeIsSeq
<1> SUFFICES ASSUME T # {} PROVE FALSE
  OBVIOUS
<1>1. PICK k \in T : \A j \in T : k <= j
  <2> HIDE DEF T
  <2>1. T \in SUBSET Nat
    BY DEF T
  <2> QED BY <2>1, LeastNumber
<1>2. PICK a \in Node, b \in Node : Len(a) = k /\ a # b /\ Path[a] = Path[b]
  BY <1>1
<1>3. /\ Path[a] \in Seq(Char) /\ Len(Path[a]) \in Nat /\ Len(Root) \in Nat
      /\ Path[<<>>] = Root
  BY PathBounds, PathAssumption, CapacityAssumption
<1>4. a # <<>> /\ b # <<>>
  BY <1>2, <1>3, PathBounds
<1> DEFINE pa == Removal!Parent(a)
           pb == Removal!Parent(b)
           xa == a[Len(a)]
           xb == b[Len(b)]
<1>5. /\ pa \in Node /\ pb \in Node /\ xa \in Name /\ xb \in Name
      /\ a = Append(pa, xa) /\ b = Append(pb, xb)
  BY <1>4, NodeParent
<1>6. /\ Path[pa] \in Seq(Char) /\ xa \in Seq(Char)
      /\ Len(Path[pa]) \in Nat /\ Len(xa) \in Nat \ {0}
      /\ Len(Path[a]) = Len(Path[pa]) + 1 + Len(xa)
      /\ \A i \in 1..Len(Path[pa]) : Path[a][i] = Path[pa][i]
      /\ Path[a][Len(Path[pa]) + 1] = Slash
      /\ \A i \in 1..Len(xa) : Path[a][Len(Path[pa]) + 1 + i] = xa[i] /\ xa[i] # Slash
  BY <1>4, <1>5, PathParts, PathBounds
<1>7. /\ Path[pb] \in Seq(Char) /\ xb \in Seq(Char)
      /\ Len(Path[pb]) \in Nat /\ Len(xb) \in Nat \ {0}
      /\ Len(Path[b]) = Len(Path[pb]) + 1 + Len(xb)
      /\ \A i \in 1..Len(Path[pb]) : Path[b][i] = Path[pb][i]
      /\ Path[b][Len(Path[pb]) + 1] = Slash
      /\ \A i \in 1..Len(xb) : Path[b][Len(Path[pb]) + 1 + i] = xb[i] /\ xb[i] # Slash
  BY <1>4, <1>5, PathParts, PathBounds
<1>8. Len(pa) = k - 1 /\ k - 1 \in Nat
  <2>1. pa \in Seq(Name) /\ Len(pa) \in Nat
    BY <1>5, NodeIsSeq, HeightAssumption
  <2> QED BY <1>2, <1>5, <2>1
<1> HIDE DEF pa, pb, xa, xb, T
<1>9. Len(xa) = Len(xb)
  <2>1. CASE Len(xa) < Len(xb)
    <3> DEFINE i == Len(xb) - Len(xa)
    <3>1. i \in 1..Len(xb) /\ Len(Path[pb]) + 1 + i = Len(Path[pa]) + 1
      BY <1>2, <1>6, <1>7, <2>1
    <3>2. Path[b][Len(Path[pb]) + 1 + i] = xb[i] /\ xb[i] # Slash
      BY <1>7, <3>1
    <3> QED BY <1>2, <1>6, <3>1, <3>2
  <2>2. CASE Len(xb) < Len(xa)
    <3> DEFINE i == Len(xa) - Len(xb)
    <3>1. i \in 1..Len(xa) /\ Len(Path[pa]) + 1 + i = Len(Path[pb]) + 1
      BY <1>2, <1>6, <1>7, <2>2
    <3>2. Path[a][Len(Path[pa]) + 1 + i] = xa[i] /\ xa[i] # Slash
      BY <1>6, <3>1
    <3> QED BY <1>2, <1>7, <3>1, <3>2
  <2> QED BY <1>6, <1>7, <2>1, <2>2
<1>10. Len(Path[pa]) = Len(Path[pb])
  BY <1>2, <1>6, <1>7, <1>9
<1>11. Path[pa] = Path[pb]
  <2>1. \A i \in 1..Len(Path[pa]) : Path[pa][i] = Path[pb][i]
    BY <1>2, <1>6, <1>7, <1>10
  <2> QED BY <1>6, <1>7, <1>10, <2>1, SameString
<1>12. xa = xb
  <2>1. \A i \in 1..Len(xa) : xa[i] = xb[i]
    BY <1>2, <1>6, <1>7, <1>9, <1>10
  <2> QED BY <1>6, <1>7, <1>9, <2>1
<1>13. pa # pb
  BY <1>2, <1>5, <1>12
<1>14. k - 1 \in T
  BY <1>5, <1>8, <1>11, <1>13 DEF T
<1> QED BY <1>1, <1>8, <1>14 DEF T

\* No path is another one with a slash behind it.
LEMMA NoSlashEnd ==
  ASSUME NEW a \in Node, NEW b \in Node, Path[a] = Append(Path[b], Slash)
  PROVE  FALSE
<1>1. /\ Path[a] \in Seq(Char) /\ Path[b] \in Seq(Char) /\ Slash \in Char
      /\ Len(Path[a]) = Len(Path[b]) + 1 /\ Len(Path[b]) \in Nat
      /\ Path[a][Len(Path[a])] = Slash
  BY PathBounds, NameAssumption
<1>2. a # <<>>
  <2>1. Len(Path[b]) >= Len(Root) /\ Path[<<>>] = Root /\ Len(Root) \in Nat
    BY PathBounds, PathAssumption, CapacityAssumption
  <2> QED BY <1>1, <2>1
<1>3. /\ Len(a[Len(a)]) \in Nat \ {0}
      /\ Len(Path[a]) = Len(Path[Removal!Parent(a)]) + 1 + Len(a[Len(a)])
      /\ \A i \in 1..Len(a[Len(a)]) :
           /\ Path[a][Len(Path[Removal!Parent(a)]) + 1 + i] = a[Len(a)][i]
           /\ a[Len(a)][i] # Slash
  BY <1>2, PathParts
<1>4. Path[a][Len(Path[a])] # Slash
  <2>1. Len(a[Len(a)]) \in 1..Len(a[Len(a)])
    BY <1>3
  <2> QED BY <1>3, <2>1
<1> QED BY <1>1, <1>4

\* What a string names is one node.
LEMMA NamesOne ==
  ASSUME NEW s, NEW n \in Node, NEW m \in Node, Names(s, n), Names(s, m)
  PROVE  n = m
<1>1. /\ Path[n] \in Seq(Char) /\ Path[m] \in Seq(Char) /\ Slash \in Char
      /\ Len(Path[n]) \in Nat /\ Len(Path[m]) \in Nat
  BY PathBounds, NameAssumption
<1>2. ASSUME NEW a \in Node, NEW b \in Node, Path[a] = Append(Path[b], Slash)
      PROVE  FALSE
  BY <1>2, NoSlashEnd
<1>3. ASSUME Append(Path[n], Slash) = Append(Path[m], Slash) PROVE Path[n] = Path[m]
  <2>1. Len(Path[n]) = Len(Path[m])
    <3>1. /\ Len(Append(Path[n], Slash)) = Len(Path[n]) + 1
          /\ Len(Append(Path[m], Slash)) = Len(Path[m]) + 1
      BY <1>1
    <3> QED BY <1>1, <1>3, <3>1
  <2>2. \A i \in 1..Len(Path[n]) : Path[n][i] = Path[m][i]
    <3>1. /\ \A i \in 1..Len(Path[n]) : Append(Path[n], Slash)[i] = Path[n][i]
          /\ \A i \in 1..Len(Path[m]) : Append(Path[m], Slash)[i] = Path[m][i]
      BY <1>1
    <3> QED BY <1>3, <2>1, <3>1
  <2> QED BY <1>1, <2>1, <2>2
<1> QED BY <1>2, <1>3, PathInjective DEF Names

-----------------------------------------------------------------------------
\* Types.

LEMMA PutType ==
  ASSUME TypeOK, NEW end \in 0..Len(str), NEW s \in Seq(Char)
  PROVE  /\ Put(end, s) \in Seq(Char)
         /\ Len(Put(end, s)) = IF end + Len(s) > Capacity THEN Capacity ELSE end + Len(s)
         /\ \A i \in 1..end : Put(end, s)[i] = str[i]
<1> DEFINE whole == SubSeq(str, 1, end) \o s
<1>1. /\ str \in Seq(Char) /\ Len(str) \in Nat /\ Capacity \in Nat /\ end <= Capacity
      /\ end \in Nat
  BY CapacityAssumption DEF TypeOK
<1>2. /\ SubSeq(str, 1, end) \in Seq(Char) /\ Len(SubSeq(str, 1, end)) = end
      /\ \A i \in 1..end : SubSeq(str, 1, end)[i] = str[i]
  BY <1>1
<1>3. /\ whole \in Seq(Char) /\ Len(whole) = end + Len(s)
      /\ \A i \in 1..end : whole[i] = str[i]
  BY <1>1, <1>2
<1>4. CASE Len(whole) > Capacity
  <2> HIDE DEF whole
  <2>1. /\ SubSeq(whole, 1, Capacity) \in Seq(Char)
        /\ Len(SubSeq(whole, 1, Capacity)) = Capacity
        /\ \A i \in 1..Capacity : SubSeq(whole, 1, Capacity)[i] = whole[i]
    BY <1>1, <1>3, <1>4
  <2>2. Put(end, s) = SubSeq(whole, 1, Capacity)
    BY <1>4 DEF Put, Cut, whole
  <2>3. \A i \in 1..end : i \in 1..Capacity
    BY <1>1
  <2> QED BY <1>1, <1>3, <1>4, <2>1, <2>2, <2>3
<1>5. CASE ~(Len(whole) > Capacity)
  <2>1. Put(end, s) = whole
    BY <1>5 DEF Put, Cut
  <2> HIDE DEF whole
  <2> QED BY <1>1, <1>3, <1>5, <2>1
<1> QED BY <1>4, <1>5

LEMMA TopIsEntry == TypeOK => Top \in Entry /\ Len(stack) \in DOMAIN stack
  BY DepthAssumption DEF TypeOK, Top

LEMMA TargetPath ==
  /\ Target \in Node /\ Path[Target] \in Seq(Char) /\ Len(Path[Target]) \in Nat
  /\ Append(Path[Target], Slash) \in Seq(Char)
  /\ Len(Append(Path[Target], Slash)) = Len(Path[Target]) + 1
  BY TargetAssumption, PathAssumption, NameAssumption

LEMMA InsideIsOther ==
  ASSUME NEW n \in Node, Inside(n)
  PROVE  n # Target /\ n # <<>>
<1>1. Len(n) > Len(Target) /\ Len(Target) \in Nat
  BY TargetAssumption, NodeIsSeq, HeightAssumption DEF Inside, Removal!Inside
<1> QED BY <1>1

LEMMA InitString ==
  ASSUME Init, TargetFits
  PROVE  str = Append(Path[Target], Slash) /\ Len(str) = Len(Path[Target]) + 1
<1>1. ~(Len(Append(Path[Target], Slash)) > Capacity)
  BY TargetPath, CapacityAssumption DEF TargetFits
<1> QED BY <1>1, TargetPath DEF Init, Cut

LEMMA InitType == Init /\ TargetFits => TypeOK
<1> SUFFICES ASSUME Init, TargetFits PROVE TypeOK
  OBVIOUS
<1>1. Removal!IsTree(tree)
  BY InitialAssumption DEF Init
<1>2. str \in Seq(Char) /\ Len(str) \in 1..Capacity
  <2>1. str \in Seq(Char) /\ Len(str) = Len(Path[Target]) + 1
    BY InitString, TargetPath
  <2> QED BY <2>1, TargetPath, CapacityAssumption DEF TargetFits
<1>3. <<>> \in Node
  BY HeightAssumption DEF Node, Removal!Node
<1>4. <<>> \in [{} -> Removal!Kind]
  OBVIOUS
<1>5. Reserve(Len(str)) \in Entry
  BY <1>2, <1>3, <1>4 DEF Reserve, Entry
<1>6. stack \in Seq(Entry) /\ Len(stack) = 1
  BY <1>5 DEF Init
<1>7. Len(str) <= Capacity /\ changes \in 0..MaxChanges /\ Len(stack) \in 1..Depth
  BY <1>2, <1>6, DepthAssumption, CapacityAssumption DEF Init
<1> QED BY <1>1, <1>2, <1>6, <1>7 DEF Init, TypeOK

-----------------------------------------------------------------------------
\* The inductive invariant: the string begins with the path of the directory
\* to remove and a slash; the directories on the stack above that one have a
\* longer path; and the string ends where the path of the innermost one does
\* whenever a directory is opened or removed.

RootEnd == Len(Path[Target]) + 1

UnderTarget(s) == \A i \in 1..RootEnd : s[i] = Append(Path[Target], Slash)[i]

Ends(s) ==
    /\ s[1].end = RootEnd
    /\ \A i \in 2..Len(s) : s[i].end > RootEnd /\ s[i].end >= s[i - 1].end

Shape ==
    /\ TargetFits
    /\ op # "done" => tree[Target] = "dir"
    /\ UnderTarget(str)
    /\ Ends(stack)
    /\ Top.end <= Len(str)
    /\ op \in {"opendir", "readdir", "closedir", "rmdir"} => Len(str) = Top.end

IInv == TypeOK /\ Shape

LEMMA RootEndBounds ==
  ASSUME TargetFits
  PROVE  /\ RootEnd \in Nat \ {0} /\ RootEnd < Capacity /\ Capacity \in Nat
         /\ Len(Path[Target]) \in Nat /\ RootEnd = Len(Path[Target]) + 1
  BY TargetPath, CapacityAssumption DEF TargetFits, RootEnd

LEMMA InitShape == Init /\ TargetFits => Shape
<1> SUFFICES ASSUME Init, TargetFits PROVE Shape
  OBVIOUS
<1>1. str = Append(Path[Target], Slash) /\ Len(str) = RootEnd /\ RootEnd \in Nat
  BY InitString, RootEndBounds DEF RootEnd
<1>2. Len(stack) = 1 /\ stack[1].end = RootEnd /\ Top = stack[1]
  BY <1>1 DEF Init, Reserve, Top
<1>3. tree[Target] = "dir"
  BY InitialAssumption DEF Init
<1>4. Ends(stack)
  BY <1>2 DEF Ends
<1>5. UnderTarget(str)
  BY <1>1 DEF UnderTarget
<1> QED BY <1>1, <1>2, <1>3, <1>4, <1>5 DEF Shape

\* An entry of the top that keeps its end keeps the shape of the stack.
LEMMA TopChanged ==
  ASSUME TypeOK, Ends(stack), NEW e \in Entry, e.end = Top.end
  PROVE  LET s == [stack EXCEPT ![Len(stack)] = e] IN
           /\ s \in Seq(Entry)
           /\ Len(s) = Len(stack)
           /\ s[Len(s)] = e
           /\ Ends(s)
<1> DEFINE s == [stack EXCEPT ![Len(stack)] = e]
<1>1. stack \in Seq(Entry) /\ Len(stack) \in Nat \ {0}
  BY DepthAssumption DEF TypeOK
<1>2. s \in Seq(Entry) /\ Len(s) = Len(stack)
  BY <1>1
<1>3. s[Len(s)] = e
  BY <1>1, <1>2
<1>4. ASSUME NEW i \in 1..Len(stack) PROVE s[i].end = stack[i].end
  <2>1. CASE i = Len(stack)
    BY <1>1, <1>3, <2>1 DEF Top
  <2>2. CASE i # Len(stack)
    <3>1. s[i] = stack[i]
      BY <1>1, <2>2
    <3> QED BY <3>1
  <2> QED BY <2>1, <2>2
<1>5. Ends(s)
  <2> HIDE DEF s
  <2>1. 1 \in 1..Len(stack) /\ \A i \in 2..Len(stack) : i \in 1..Len(stack) /\ i - 1 \in 1..Len(stack)
    BY <1>1
  <2>2. s[1].end = RootEnd
    BY <2>1, <1>4 DEF Ends
  <2>3. ASSUME NEW i \in 2..Len(s) PROVE s[i].end > RootEnd /\ s[i].end >= s[i - 1].end
    <3>1. s[i].end = stack[i].end /\ s[i - 1].end = stack[i - 1].end
      BY <1>2, <1>4, <2>1
    <3>2. stack[i].end > RootEnd /\ stack[i].end >= stack[i - 1].end
      BY <1>2 DEF Ends
    <3> QED BY <3>1, <3>2
  <2> QED BY <2>2, <2>3 DEF Ends
<1> QED BY <1>2, <1>3, <1>5

LEMMA SeenChanged ==
  ASSUME IInv, NEW x \in Name
  PROVE  /\ Seen(x) \in Seq(Entry)
         /\ Len(Seen(x)) = Len(stack)
         /\ Seen(x)[Len(stack)].end = Top.end
         /\ Ends(Seen(x))
<1> DEFINE e == [Top EXCEPT !.seen = @ \cup {x}]
<1>1. Top \in Entry /\ Len(stack) \in DOMAIN stack
  BY TopIsEntry DEF IInv
<1>2. e \in Entry /\ e.end = Top.end
  BY <1>1 DEF Entry
<1>3. Seen(x) = [stack EXCEPT ![Len(stack)] = e]
  BY <1>1 DEF Seen, Top
<1> QED BY <1>2, <1>3, TopChanged DEF IInv, Shape

LEMMA EndFacts ==
  IInv => /\ RootEnd \in Nat \ {0} /\ RootEnd < Capacity /\ Capacity \in Nat
          /\ UnderTarget(str)
  BY RootEndBounds DEF IInv, Shape

LEMMA EndBounds == IInv => Top.end \in RootEnd..Capacity /\ Top.end \in Nat
<1> SUFFICES ASSUME IInv PROVE Top.end \in RootEnd..Capacity /\ Top.end \in Nat
  OBVIOUS
<1>1. Top \in Entry /\ Len(stack) \in Nat \ {0}
  BY TopIsEntry, DepthAssumption DEF IInv, TypeOK
<1>2. Top.end \in 1..Capacity /\ Capacity \in Nat /\ RootEnd \in Nat
  BY <1>1, EndFacts DEF Entry
<1>3. CASE Len(stack) = 1
  BY <1>2, <1>3 DEF IInv, Shape, Ends, Top
<1>4. CASE Len(stack) # 1
  BY <1>1, <1>2, <1>4 DEF IInv, Shape, Ends, Top
<1> QED BY <1>3, <1>4

\* The string after the name of an entry has been put behind Top.end.
LEMMA PutBounds ==
  ASSUME IInv, NEW s \in Seq(Char), s # <<>>
  PROVE  /\ Put(Top.end, s) \in Seq(Char)
         /\ Len(Put(Top.end, s)) \in RootEnd + 1..Capacity
         /\ Len(Put(Top.end, s)) >= Top.end
         /\ UnderTarget(Put(Top.end, s))
<1>1. Top.end \in 0..Len(str) /\ Top.end \in Nat /\ Top.end >= RootEnd /\ Top.end <= Capacity
  BY EndBounds, EndFacts DEF IInv, Shape, TypeOK
<1>2. Len(s) \in Nat \ {0}
  OBVIOUS
<1>3. RootEnd \in Nat /\ RootEnd < Capacity /\ Capacity \in Nat /\ UnderTarget(str)
  BY EndFacts
<1>4. /\ Put(Top.end, s) \in Seq(Char)
      /\ Len(Put(Top.end, s)) = IF Top.end + Len(s) > Capacity THEN Capacity ELSE Top.end + Len(s)
      /\ \A i \in 1..Top.end : Put(Top.end, s)[i] = str[i]
  BY <1>1, PutType DEF IInv
<1>5. UnderTarget(Put(Top.end, s))
  <2>1. \A i \in 1..RootEnd : i \in 1..Top.end
    BY <1>1, <1>3
  <2> QED BY <1>3, <1>4, <2>1 DEF UnderTarget
<1> QED BY <1>1, <1>2, <1>3, <1>4, <1>5

-----------------------------------------------------------------------------
\* Every step preserves the invariant and is a step of TreeRemoval.

Abstract == [Removal!Next]_(Removal!removalVars)

LEMMA Stutter == ASSUME UNCHANGED tree, Status' = Status PROVE Abstract
  BY DEF Abstract, Removal!removalVars

LEMMA Failure == ASSUME UNCHANGED tree, Status = "running", Status' = "failed" PROVE Abstract
  BY DEF Abstract, Removal!Next, Removal!Fail

LEMMA Running == ASSUME op \notin Ended PROVE Status = "running"
  BY DEF Status, Ended

LEMMA RunningNext == ASSUME op' \notin Ended PROVE Status' = "running"
  BY DEF Status, Ended

LEMMA OpendirStep == ASSUME IInv, OnOpendir PROVE IInv' /\ Abstract
<1>1. PICK n \in Node :
        stack' = [stack EXCEPT ![Len(stack)] =
          [end |-> Top.end, node |-> n, seen |-> {},
           listed |-> [x \in Removal!Entries(tree, n) |-> tree[Append(n, x)]]]]
  BY DEF OnOpendir
<1> DEFINE e == [end |-> Top.end, node |-> n, seen |-> {},
                 listed |-> [x \in Removal!Entries(tree, n) |-> tree[Append(n, x)]]]
<1>2. e \in Entry
  <2>1. tree \in [Node -> Removal!Kind]
    BY DEF IInv, TypeOK, Removal!IsTree, Node
  <2>2. Removal!Entries(tree, n) \in SUBSET Name
    BY DEF Removal!Entries
  <2>3. \A x \in Removal!Entries(tree, n) : tree[Append(n, x)] \in Removal!Kind
    BY <2>1 DEF Removal!Entries, Node
  <2>4. [x \in Removal!Entries(tree, n) |-> tree[Append(n, x)]]
          \in [Removal!Entries(tree, n) -> Removal!Kind]
    BY <2>3
  <2>5. Top.end \in 1..Capacity
    BY TopIsEntry DEF IInv, Entry
  <2> QED BY <2>2, <2>4, <2>5 DEF Entry
<1>3. /\ stack' \in Seq(Entry)
      /\ Len(stack') = Len(stack)
      /\ stack'[Len(stack')] = e
      /\ Ends(stack')
  <2> HIDE DEF e
  <2>1. stack' = [stack EXCEPT ![Len(stack)] = e] /\ e.end = Top.end
    BY <1>1 DEF e
  <2> QED BY <1>2, <2>1, TopChanged DEF IInv, Shape
<1>4. Top' = e /\ e.end = Top.end
  BY <1>3 DEF Top
<1>5. op = "opendir" /\ op' = "readdir" /\ UNCHANGED <<tree, str, changes>>
  BY DEF OnOpendir
<1>6. TypeOK'
  BY <1>3, <1>5 DEF IInv, TypeOK
<1>7. Shape'
  <2> HIDE DEF e
  <2>1. /\ Len(str') = Top.end /\ Top'.end = Top.end /\ tree'[Target] = "dir"
        /\ TargetFits /\ UnderTarget(str')
    BY <1>4, <1>5 DEF IInv, Shape
  <2>2. Top.end \in Nat
    BY EndBounds
  <2> QED BY <1>3, <1>5, <2>1, <2>2 DEF Shape
<1>8. Abstract
  BY <1>5, Running, RunningNext, Stutter DEF Ended
<1> QED BY <1>6, <1>7, <1>8 DEF IInv

LEMMA ReaddirEntryStep == ASSUME IInv, OnReaddirEntry PROVE IInv' /\ Abstract
<1>1. PICK x \in (DOMAIN Top.listed \cup Removal!Entries(tree, Top.node)) \ Top.seen :
        ReadDirectory(x) \/ ReadFile(x) \/ ReadOther(x)
  BY DEF OnReaddirEntry
<1>2. /\ op = "readdir" /\ UNCHANGED <<tree, changes>> /\ tree[Target] = "dir"
      /\ Len(str) = Top.end /\ TargetFits /\ UnderTarget(str)
  BY DEF OnReaddirEntry, IInv, Shape
<1>3. x \in Name
  <2>1. Top \in Entry
    BY TopIsEntry DEF IInv
  <2>2. PICK S \in SUBSET Name : Top.listed \in [S -> Removal!Kind]
    BY <2>1 DEF Entry
  <2> QED BY <2>2 DEF Removal!Entries
<1>4. /\ Seen(x) \in Seq(Entry)
      /\ Len(Seen(x)) = Len(stack)
      /\ Seen(x)[Len(stack)].end = Top.end
      /\ Ends(Seen(x))
  BY <1>3, SeenChanged
<1>5. /\ x \in Seq(Char) /\ x # <<>>
      /\ Append(x, Slash) \in Seq(Char) /\ Append(x, Slash) # <<>>
  BY <1>3, NameAssumption
<1>6. Top.end \in RootEnd..Capacity /\ Top.end \in Nat /\ Capacity \in Nat /\ RootEnd \in Nat
  BY EndBounds, EndFacts
<1>7. Len(stack) \in 1..Depth /\ Depth \in Nat
  BY DepthAssumption DEF IInv, TypeOK
<1>8. CASE ReadDirectory(x) /\ ~Full(stack)
  <2>1. /\ str' = Put(Top.end, Append(x, Slash))
        /\ stack' = Append(Seen(x), Reserve(Len(str')))
        /\ op' = "opendir"
    BY <1>8 DEF ReadDirectory
  <2>2. /\ str' \in Seq(Char)
        /\ Len(str') \in RootEnd + 1..Capacity
        /\ Len(str') >= Top.end
        /\ UnderTarget(str')
    BY <1>5, <2>1, PutBounds
  <2>3. Reserve(Len(str')) \in Entry /\ Reserve(Len(str')).end = Len(str')
    <3>1. <<>> \in Node /\ <<>> \in [{} -> Removal!Kind]
      BY HeightAssumption DEF Node, Removal!Node
    <3>2. Len(str') \in 1..Capacity
      BY <1>6, <2>2
    <3> QED BY <3>1, <3>2 DEF Reserve, Entry
  <2>4. stack' \in Seq(Entry) /\ Len(stack') = Len(stack) + 1 /\ Len(stack') <= Depth
    BY <1>4, <1>7, <1>8, <2>1, <2>3 DEF Full
  <2>5. Top'.end = Len(str')
    BY <1>4, <2>1, <2>3, <2>4 DEF Top
  <2>6. Ends(stack')
    <3>1. \A i \in 1..Len(stack) : stack'[i] = Seen(x)[i]
      BY <1>4, <2>1, <2>3
    <3>2. stack'[Len(stack) + 1].end = Len(str')
      BY <1>4, <2>1, <2>3
    <3>3. stack'[1].end = RootEnd
      BY <1>4, <1>7, <3>1 DEF Ends
    <3>4. ASSUME NEW i \in 2..Len(stack')
          PROVE  stack'[i].end > RootEnd /\ stack'[i].end >= stack'[i - 1].end
      <4>1. CASE i = Len(stack) + 1
        <5>1. stack'[i - 1].end = Top.end
          BY <1>4, <1>7, <3>1, <4>1
        <5> QED BY <1>6, <2>2, <3>2, <4>1, <5>1
      <4>2. CASE i # Len(stack) + 1
        <5>1. i \in 2..Len(Seen(x)) /\ i \in 1..Len(stack) /\ i - 1 \in 1..Len(stack)
          BY <1>4, <1>7, <2>4, <4>2
        <5>2. Seen(x)[i].end > RootEnd /\ Seen(x)[i].end >= Seen(x)[i - 1].end
          BY <1>4, <5>1 DEF Ends
        <5> QED BY <3>1, <5>1, <5>2
      <4> QED BY <4>1, <4>2
    <3> QED BY <3>3, <3>4 DEF Ends
  <2>7. TypeOK'
    BY <1>2, <1>7, <2>1, <2>2, <2>4 DEF IInv, TypeOK
  <2>8. Shape'
    BY <1>2, <1>6, <2>1, <2>2, <2>5, <2>6 DEF Shape
  <2>9. Abstract
    BY <1>2, <2>1, Running, RunningNext, Stutter DEF Ended
  <2> QED BY <2>7, <2>8, <2>9 DEF IInv
<1>9. CASE ReadDirectory(x) /\ Full(stack)
  <2>1. /\ str' = Put(Top.end, Append(x, Slash))
        /\ stack' = Seen(x)
        /\ op' = "crashed"
    BY <1>9 DEF ReadDirectory
  <2>2. /\ str' \in Seq(Char)
        /\ Len(str') \in RootEnd + 1..Capacity
        /\ Len(str') >= Top.end
        /\ UnderTarget(str')
    BY <1>5, <2>1, PutBounds
  <2>3. Top'.end = Top.end
    BY <1>4, <2>1 DEF Top
  <2>4. TypeOK'
    BY <1>2, <1>4, <1>7, <2>1, <2>2 DEF IInv, TypeOK, Ended
  <2>5. Shape'
    BY <1>2, <1>4, <1>6, <2>1, <2>2, <2>3 DEF Shape
  <2>6. Abstract
    BY <1>2, <2>1, Running, Failure DEF Ended, Status
  <2> QED BY <2>4, <2>5, <2>6 DEF IInv
<1>10. CASE ReadFile(x)
  <2>1. str' = Put(Top.end, x) /\ stack' = Seen(x) /\ op' = "unlink"
    BY <1>10 DEF ReadFile
  <2>2. /\ str' \in Seq(Char)
        /\ Len(str') \in RootEnd + 1..Capacity
        /\ Len(str') >= Top.end
        /\ UnderTarget(str')
    BY <1>5, <2>1, PutBounds
  <2>3. Top'.end = Top.end
    BY <1>4, <2>1 DEF Top
  <2>4. TypeOK'
    BY <1>2, <1>4, <1>7, <2>1, <2>2 DEF IInv, TypeOK
  <2>5. Shape'
    BY <1>2, <1>4, <1>6, <2>1, <2>2, <2>3 DEF Shape
  <2>6. Abstract
    BY <1>2, <2>1, Running, RunningNext, Stutter DEF Ended
  <2> QED BY <2>4, <2>5, <2>6 DEF IInv
<1>11. CASE ReadOther(x)
  <2>1. str' = str /\ stack' = Seen(x) /\ op' = "failed"
    BY <1>11 DEF ReadOther
  <2>2. Top'.end = Top.end
    BY <1>4, <2>1 DEF Top
  <2>3. TypeOK'
    BY <1>2, <1>4, <1>7, <2>1 DEF IInv, TypeOK, Ended
  <2>4. Shape'
    BY <1>2, <1>4, <1>6, <2>1, <2>2 DEF Shape
  <2>5. Abstract
    BY <1>2, <2>1, Running, Failure DEF Ended, Status
  <2> QED BY <2>3, <2>4, <2>5 DEF IInv
<1> QED BY <1>1, <1>8, <1>9, <1>10, <1>11

LEMMA ReaddirEndStep == ASSUME IInv, OnReaddirEnd PROVE IInv' /\ Abstract
<1>1. op = "readdir" /\ op' = "closedir" /\ UNCHANGED <<tree, str, stack, changes>>
  BY DEF OnReaddirEnd
<1>2. Top' = Top
  BY <1>1 DEF Top
<1>3. IInv'
  BY <1>1, <1>2 DEF IInv, TypeOK, Shape, Ended
<1> QED BY <1>1, <1>3, Running, RunningNext, Stutter DEF Ended

LEMMA ClosedirStep == ASSUME IInv, OnClosedir PROVE IInv' /\ Abstract
<1>1. op = "closedir" /\ op' = "rmdir" /\ UNCHANGED <<tree, str, stack, changes>>
  BY DEF OnClosedir
<1>2. Top' = Top
  BY <1>1 DEF Top
<1>3. IInv'
  BY <1>1, <1>2 DEF IInv, TypeOK, Shape, Ended
<1> QED BY <1>1, <1>3, Running, RunningNext, Stutter DEF Ended

LEMMA ErrorStep == ASSUME IInv, OnError PROVE IInv' /\ Abstract
<1>1. op \notin Ended /\ op' = "failed" /\ UNCHANGED <<tree, str, stack, changes>>
  BY DEF OnError
<1>2. Top' = Top
  BY <1>1 DEF Top
<1>3. IInv'
  BY <1>1, <1>2 DEF IInv, TypeOK, Shape, Ended
<1>4. Status' = "failed"
  BY <1>1 DEF Status, Ended
<1> QED BY <1>1, <1>3, <1>4, Running, Failure

\* The removal of a node inside that has no entries.
LEMMA RemoveStep ==
  ASSUME TypeOK, tree[Target] = "dir", NEW n \in Node, Inside(n), tree[n] # "none",
         Removal!Entries(tree, n) = {}, tree' = [tree EXCEPT ![n] = "none"],
         Status' = Status
  PROVE  Removal!IsTree(tree') /\ tree'[Target] = "dir" /\ Abstract
<1>1. Removal!IsTree(tree')
  BY RemovalLeavesTree DEF TypeOK
<1>2. tree \in [Node -> Removal!Kind] /\ Target \in Node /\ n # Target
  BY TargetAssumption, TargetPath, InsideIsOther DEF TypeOK, Removal!IsTree, Node
<1>3. tree'[Target] = "dir"
  BY <1>2
<1>4. Removal!Remove(n)
  BY DEF Removal!Remove, Node, Inside
<1>5. Abstract
  BY <1>4 DEF Abstract, Removal!Next, Node
<1> QED BY <1>1, <1>3, <1>5

\* A path that goes on behind the directory's with a slash is that of a node
\* inside: names have no slash, so the path of one of its ancestors ends there.
LEMMA LongerIsInside ==
  ASSUME NEW n \in Node, Len(Path[n]) >= RootEnd, UnderTarget(Path[n])
  PROVE  Inside(n)
<1> DEFINE Bad(m) == Len(Path[m]) >= RootEnd /\ UnderTarget(Path[m]) /\ ~Inside(m)
           T == {k \in Nat : \E m \in Node : Len(m) = k /\ Bad(m)}
<1> SUFFICES T = {}
  BY NodeIsSeq, HeightAssumption
<1> SUFFICES ASSUME T # {} PROVE FALSE
  OBVIOUS
<1>1. PICK k \in T : \A j \in T : k <= j
  <2> HIDE DEF T
  <2>1. T \in SUBSET Nat
    BY DEF T
  <2> QED BY <2>1, LeastNumber
<1>2. PICK m \in Node : Len(m) = k /\ Bad(m)
  BY <1>1
<1> DEFINE t == Path[Target]
           u == Removal!Parent(m)
           x == m[Len(m)]
<1>3. /\ t \in Seq(Char) /\ Len(t) \in Nat /\ RootEnd = Len(t) + 1 /\ Slash \in Char
      /\ \A i \in 1..Len(t) : Append(t, Slash)[i] = t[i]
      /\ Append(t, Slash)[Len(t) + 1] = Slash
  <2>1. t \in Seq(Char) /\ Len(t) \in Nat /\ RootEnd = Len(t) + 1 /\ Slash \in Char
    BY TargetPath, NameAssumption DEF RootEnd
  <2> HIDE DEF t
  <2> QED BY <2>1
<1>4. m # <<>>
  <2>1. Len(Path[<<>>]) <= Len(t) /\ Len(Path[<<>>]) \in Nat
    BY PathBounds, PathAssumption, TargetAssumption, RootIsNode, CapacityAssumption
  <2> QED BY <1>2, <1>3, <2>1
<1>5. u \in Node /\ x \in Name /\ m = Append(u, x)
  BY <1>4, NodeParent
<1>6. /\ Path[u] \in Seq(Char) /\ Len(Path[u]) \in Nat /\ Len(x) \in Nat \ {0}
      /\ Path[m] \in Seq(Char)
      /\ Len(Path[m]) = Len(Path[u]) + 1 + Len(x)
      /\ \A i \in 1..Len(Path[u]) : Path[m][i] = Path[u][i]
      /\ Path[m][Len(Path[u]) + 1] = Slash
      /\ \A i \in 1..Len(x) : Path[m][Len(Path[u]) + 1 + i] = x[i] /\ x[i] # Slash
  BY <1>4, <1>5, PathParts, PathBounds
<1>7. u \in Seq(Name) /\ Len(u) = k - 1 /\ k - 1 \in Nat /\ k \in Nat
      /\ \A i \in 1..(k - 1) : m[i] = u[i]
  <2>1. u \in Seq(Name) /\ Len(u) \in Nat
    BY <1>5, NodeIsSeq, HeightAssumption
  <2> HIDE DEF u, x
  <2> QED BY <1>2, <1>5, <2>1
<1>8. /\ \A i \in 1..Len(t) : Path[m][i] = t[i]
      /\ Path[m][Len(t) + 1] = Slash
      /\ Len(Path[m]) >= Len(t) + 1
  <2>1. \A i \in 1..RootEnd : Path[m][i] = Append(t, Slash)[i]
    BY <1>2 DEF UnderTarget
  <2>2. Len(Path[m]) >= Len(t) + 1
    BY <1>2, <1>3
  <2> DEFINE p == Path[m]
  <2>3. \A i \in 1..RootEnd : p[i] = Append(t, Slash)[i]
    BY <2>1
  <2> HIDE DEF t, p
  <2>4. Len(t) + 1 \in 1..RootEnd /\ \A i \in 1..Len(t) : i \in 1..RootEnd
    BY <1>3
  <2>5. (\A i \in 1..Len(t) : p[i] = t[i]) /\ p[Len(t) + 1] = Slash
    BY <1>3, <2>3, <2>4
  <2> QED BY <2>2, <2>5 DEF p
<1>9. Target \in Node /\ Target \in Seq(Name) /\ Len(Target) \in Nat
  BY TargetAssumption, NodeIsSeq, HeightAssumption
<1>10. ~Inside(m)
  BY <1>2
<1> HIDE DEF Bad, T, t, u, x
<1>11. Len(Path[u]) >= Len(t)
  <2> SUFFICES ASSUME ~(Len(Path[u]) >= Len(t)) PROVE FALSE
    OBVIOUS
  <2> DEFINE i == Len(t) - Len(Path[u])
  <2>1. i \in 1..Len(x) /\ Len(Path[u]) + 1 + i = Len(t) + 1
    <3>1. \A a, b, c \in Nat :
            ~(a >= b) /\ a + 1 + c >= b + 1 => b - a \in 1..c /\ a + 1 + (b - a) = b + 1
      OBVIOUS
    <3>2. Len(x) \in Nat /\ Len(Path[u]) + 1 + Len(x) >= Len(t) + 1
      BY <1>6, <1>8
    <3> QED BY <1>3, <1>6, <3>1, <3>2
  <2>2. Path[m][Len(Path[u]) + 1 + i] = x[i] /\ x[i] # Slash
    BY <1>6, <2>1
  <2> QED BY <1>8, <2>1, <2>2
<1>12. CASE Len(Path[u]) = Len(t)
  <2>1. \A i \in 1..Len(t) : Path[u][i] = t[i]
    BY <1>6, <1>8, <1>12
  <2>2. Path[u] = t
    BY <1>3, <1>6, <1>12, <2>1, SameString
  <2>3. u = Target
    BY <1>5, <1>9, <2>2, PathInjective DEF t
  <2>4. Len(m) > Len(Target) /\ \A i \in 1..Len(Target) : m[i] = Target[i]
    BY <1>2, <1>7, <2>3
  <2> QED BY <1>10, <2>4 DEF Inside, Removal!Inside
<1>13. CASE Len(Path[u]) # Len(t)
  <2>1. Len(Path[u]) >= RootEnd
    BY <1>3, <1>6, <1>11, <1>13
  <2>2. UnderTarget(Path[u])
    <3>1. \A i \in 1..RootEnd : i \in 1..Len(Path[u])
      BY <1>3, <1>6, <2>1
    <3>2. UnderTarget(Path[m])
      BY <1>2 DEF Bad
    <3> QED BY <1>6, <3>1, <3>2 DEF UnderTarget
  <2>3. Inside(u)
    <3>1. CASE Bad(u)
      <4>1. k - 1 \in T
        BY <1>5, <1>7, <3>1 DEF T
      <4> QED BY <1>1, <1>7, <4>1
    <3> QED BY <2>1, <2>2, <3>1 DEF Bad
  <2>4. Len(u) > Len(Target) /\ \A i \in 1..Len(Target) : u[i] = Target[i]
    BY <2>3 DEF Inside, Removal!Inside
  <2>5. Len(m) > Len(Target) /\ \A i \in 1..Len(Target) : m[i] = Target[i]
    BY <1>2, <1>7, <1>9, <2>4
  <2> QED BY <1>10, <2>5 DEF Inside, Removal!Inside
<1> QED BY <1>12, <1>13

\* A string that begins with the directory's names it or a node inside, and
\* the directory itself only if there is nothing more in it.
LEMMA NamedIsInside ==
  ASSUME NEW s \in Seq(Char), Len(s) >= RootEnd, UnderTarget(s),
         NEW n \in Node, Names(s, n)
  PROVE  /\ Len(s) = RootEnd => n = Target
         /\ Len(s) > RootEnd => Inside(n)
<1>1. /\ Path[n] \in Seq(Char) /\ Len(Path[n]) \in Nat /\ Slash \in Char
      /\ Len(Append(Path[n], Slash)) = Len(Path[n]) + 1
      /\ \A i \in 1..Len(Path[n]) : Append(Path[n], Slash)[i] = Path[n][i]
  <2>1. Path[n] \in Seq(Char) /\ Len(Path[n]) \in Nat /\ Slash \in Char
    BY PathBounds, NameAssumption
  <2> QED BY <2>1
<1>2. /\ Path[Target] \in Seq(Char) /\ Len(Path[Target]) \in Nat /\ Target \in Node
      /\ RootEnd = Len(Path[Target]) + 1
      /\ \A i \in 1..Len(Path[Target]) : Append(Path[Target], Slash)[i] = Path[Target][i]
  <2>1. /\ Path[Target] \in Seq(Char) /\ Len(Path[Target]) \in Nat /\ Target \in Node
        /\ RootEnd = Len(Path[Target]) + 1 /\ Slash \in Char
    BY TargetPath, NameAssumption DEF RootEnd
  <2> QED BY <2>1
<1>3. CASE Len(Path[n]) >= RootEnd
  <2>1. \A i \in 1..RootEnd : Path[n][i] = s[i]
    BY <1>1, <1>2, <1>3, SMTT(30) DEF Names
  <2>2. Inside(n)
    BY <1>3, <2>1, LongerIsInside DEF UnderTarget
  <2>3. Len(s) = RootEnd => FALSE
    <3> SUFFICES ASSUME Len(s) = RootEnd PROVE FALSE
      OBVIOUS
    <3>1. s = Path[n] /\ Len(Path[n]) = RootEnd
      BY <1>1, <1>2, <1>3 DEF Names
    <3>2. RootEnd \in 1..RootEnd /\ Append(Path[Target], Slash)[RootEnd] = Slash
      BY <1>1, <1>2
    <3>3. Path[n] = Append(Path[Target], Slash)
      <4>1. /\ Append(Path[Target], Slash) \in Seq(Char)
            /\ Len(Append(Path[Target], Slash)) = RootEnd
        BY TargetPath DEF RootEnd
      <4> QED BY <1>1, <3>1, <4>1, SameString DEF UnderTarget
    <3> QED BY <1>2, <3>3, NoSlashEnd
  <2> QED BY <2>2, <2>3
<1>4. CASE ~(Len(Path[n]) >= RootEnd)
  <2>1. s = Append(Path[n], Slash) /\ Len(Path[n]) = Len(Path[Target]) /\ Len(s) = RootEnd
    BY <1>1, <1>2, <1>4 DEF Names
  <2>2. \A i \in 1..Len(Path[n]) : Path[n][i] = Path[Target][i]
    <3>1. \A i \in 1..Len(Path[n]) : i \in 1..RootEnd /\ i \in 1..Len(Path[Target])
      BY <1>1, <1>2, <2>1
    <3> QED BY <1>1, <1>2, <2>1, <3>1 DEF UnderTarget
  <2>3. Path[n] = Path[Target]
    BY <1>1, <1>2, <2>1, <2>2, SameString
  <2>4. n = Target
    BY <1>2, <2>3, PathInjective
  <2> QED BY <1>2, <2>1, <2>4
<1> QED BY <1>3, <1>4

LEMMA SetEndBounds ==
  ASSUME IInv, NEW end \in RootEnd..Len(str)
  PROVE  /\ SetEnd(end) \in Seq(Char)
         /\ Len(SetEnd(end)) = end
         /\ end <= Capacity
         /\ UnderTarget(SetEnd(end))
<1>1. /\ str \in Seq(Char) /\ Len(str) \in Nat /\ Len(str) <= Capacity /\ Capacity \in Nat
      /\ RootEnd \in Nat /\ UnderTarget(str)
  BY EndFacts DEF IInv, TypeOK
<1>2. /\ SetEnd(end) \in Seq(Char) /\ Len(SetEnd(end)) = end /\ end <= Capacity
      /\ \A i \in 1..end : SetEnd(end)[i] = str[i]
  BY <1>1 DEF SetEnd
<1>3. \A i \in 1..RootEnd : i \in 1..end
  BY <1>1
<1> QED BY <1>1, <1>2, <1>3 DEF UnderTarget

LEMMA UnlinkStep == ASSUME IInv, OnUnlink PROVE IInv' /\ Abstract
<1>1. PICK n \in Node : CanUnlink(n) /\ tree' = [tree EXCEPT ![n] = "none"]
  BY DEF OnUnlink
<1>2. /\ op = "unlink" /\ op' = "readdir" /\ UNCHANGED <<stack, changes>>
      /\ str' = SetEnd(Top.end) /\ tree[Target] = "dir"
  BY DEF OnUnlink, IInv, Shape
<1>3. Names(str, n) /\ n # Target /\ tree[n] # "none" /\ tree[n] # "dir"
  BY <1>1, <1>2 DEF CanUnlink
<1>inside. Inside(n)
  <2>1. /\ str \in Seq(Char) /\ Len(str) \in Nat /\ Len(str) >= RootEnd
        /\ RootEnd \in Nat /\ UnderTarget(str)
    BY EndBounds, EndFacts DEF IInv, Shape, TypeOK
  <2> QED BY <1>3, <2>1, NamedIsInside
<1>4. Removal!Entries(tree, n) = {}
  BY <1>3, OnlyDirectoriesHaveEntries DEF IInv, TypeOK
<1>5. Status' = Status
  BY <1>2 DEF Status, Ended
<1>6. Removal!IsTree(tree') /\ tree'[Target] = "dir" /\ Abstract
  BY <1>1, <1>2, <1>3, <1>inside, <1>4, <1>5, RemoveStep DEF IInv
<1>7. Top.end \in RootEnd..Len(str) /\ Top.end \in Nat /\ Top' = Top
  <2>1. Top' = Top
    BY <1>2 DEF Top
  <2> QED BY <2>1, EndBounds, EndFacts DEF IInv, Shape, TypeOK
<1>8. str' \in Seq(Char) /\ Len(str') = Top.end /\ Len(str') <= Capacity /\ UnderTarget(str')
  BY <1>2, <1>7, SetEndBounds
<1>9. TypeOK'
  BY <1>2, <1>6, <1>8 DEF IInv, TypeOK
<1>10. Shape'
  BY <1>2, <1>6, <1>7, <1>8 DEF IInv, Shape
<1> QED BY <1>6, <1>9, <1>10 DEF IInv

LEMMA RmdirStep == ASSUME IInv, OnRmdir PROVE IInv' /\ Abstract
<1>1. PICK n \in Node : CanRmdir(n) /\ tree' = [tree EXCEPT ![n] = "none"]
  BY DEF OnRmdir
<1>2. op = "rmdir" /\ UNCHANGED changes /\ tree[Target] = "dir" /\ Len(str) = Top.end
  BY DEF OnRmdir, IInv, Shape
<1>3. /\ Names(str, n) /\ tree[n] = "dir" /\ Removal!Entries(tree, n) = {}
      /\ str \in Seq(Char)
  BY <1>1 DEF CanRmdir, IInv, TypeOK
<1>under. Len(str) \in Nat /\ Len(str) >= RootEnd /\ RootEnd \in Nat /\ UnderTarget(str)
  BY <1>2, EndBounds, EndFacts
<1>4. Len(stack) \in 1..Depth /\ Depth \in Nat /\ stack \in Seq(Entry)
  BY DepthAssumption DEF IInv, TypeOK
<1>5. CASE Last(stack)
  <2>1. Len(stack) = 1 /\ op' = "done" /\ UNCHANGED <<str, stack>>
    BY <1>5 DEF OnRmdir, Last
  <2>2. n = Target
    <3>1. Len(str) = RootEnd
      BY <1>2, <2>1 DEF IInv, Shape, Ends, Top
    <3> QED BY <1>3, <1>under, <3>1, NamedIsInside
  <2>3. Removal!IsTree(tree')
    BY <1>1, <1>3, RemovalLeavesTree DEF IInv, TypeOK
  <2>4. Top' = Top
    BY <2>1 DEF Top
  <2>5. TypeOK'
    BY <1>2, <2>1, <2>3 DEF IInv, TypeOK, Ended
  <2>6. Shape'
    BY <1>2, <2>1, <2>4 DEF IInv, Shape
  <2>7. Removal!Succeed
    BY <1>1, <1>2, <1>3, <2>1, <2>2 DEF Removal!Succeed, Status, Ended
  <2>8. Abstract
    BY <2>7 DEF Abstract, Removal!Next
  <2> QED BY <2>5, <2>6, <2>8 DEF IInv
<1>6. CASE ~Last(stack)
  <2>1. /\ Len(stack) # 1 /\ op' = "readdir"
        /\ stack' = SubSeq(stack, 1, Len(stack) - 1)
        /\ str' = SetEnd(stack[Len(stack) - 1].end)
    BY <1>6 DEF OnRmdir, Last
  <2>2. Len(stack) \in 2..Len(stack) /\ Len(stack) - 1 \in 1..Len(stack)
    <3>1. Len(stack) \in Nat /\ Len(stack) >= 1 /\ Len(stack) # 1
      BY <1>4, <2>1
    <3>2. \A k \in Nat : k >= 1 /\ k # 1 => k \in 2..k /\ k - 1 \in 1..k
      OBVIOUS
    <3> QED BY <3>1, <3>2
  <2>3. /\ Top.end > RootEnd
        /\ Top.end >= stack[Len(stack) - 1].end
        /\ stack[Len(stack) - 1].end \in 1..Capacity
    <3>1. stack[Len(stack) - 1] \in Entry
      BY <1>4, <2>2
    <3>2. stack[Len(stack)].end > RootEnd
          /\ stack[Len(stack)].end >= stack[Len(stack) - 1].end
      BY <2>2 DEF IInv, Shape, Ends
    <3> QED BY <3>1, <3>2 DEF Entry, Top
  <2>4. Inside(n)
    BY <1>2, <1>3, <1>under, <2>3, NamedIsInside
  <2>5. Status' = Status
    BY <1>2, <2>1 DEF Status, Ended
  <2>6. Removal!IsTree(tree') /\ tree'[Target] = "dir" /\ Abstract
    BY <1>1, <1>2, <1>3, <2>4, <2>5, RemoveStep DEF IInv
  <2>7. stack[Len(stack) - 1].end \in RootEnd..Len(str)
    <3>1. stack[Len(stack) - 1].end >= RootEnd
      <4> DEFINE k == Len(stack) - 1
      <4>0. k \in Nat /\ k >= 1 /\ k <= Len(stack) /\ Len(stack) \in Nat
        BY <1>4, <2>2
      <4>1. stack[1].end = RootEnd /\ \A i \in 2..Len(stack) : stack[i].end > RootEnd
        BY DEF IInv, Shape, Ends
      <4>2. stack[k].end \in Nat
        BY <2>3, CapacityAssumption
      <4> HIDE DEF k
      <4>3. k = 1 \/ k \in 2..Len(stack)
        BY <4>0
      <4>4. stack[k].end >= RootEnd
        BY <1>under, <4>1, <4>2, <4>3
      <4> QED BY <4>4 DEF k
    <3> QED BY <1>2, <1>under, <2>3, <3>1, EndBounds, EndFacts
  <2>8. /\ str' \in Seq(Char)
        /\ Len(str') = stack[Len(stack) - 1].end
        /\ Len(str') <= Capacity /\ UnderTarget(str')
    BY <2>1, <2>7, SetEndBounds
  <2>9. /\ stack' \in Seq(Entry)
        /\ Len(stack') = Len(stack) - 1
        /\ \A i \in 1..(Len(stack) - 1) : stack'[i] = stack[i]
    <3>1. stack \in Seq(Entry) /\ Len(stack) - 1 \in 1..Len(stack)
      BY <1>4, <2>2
    <3>2. /\ SubSeq(stack, 1, Len(stack) - 1) \in Seq(Entry)
          /\ Len(SubSeq(stack, 1, Len(stack) - 1)) = Len(stack) - 1
          /\ \A i \in 1..(Len(stack) - 1) : SubSeq(stack, 1, Len(stack) - 1)[i] = stack[i]
      BY <3>1
    <3> QED BY <2>1, <3>2
  <2>10. Top' = stack[Len(stack) - 1]
    BY <1>4, <2>1, <2>9 DEF Top
  <2>11. Ends(stack')
    <3>1. stack'[1].end = RootEnd
      BY <1>4, <2>1, <2>9 DEF IInv, Shape, Ends
    <3>2. ASSUME NEW i \in 2..Len(stack')
          PROVE  stack'[i].end > RootEnd /\ stack'[i].end >= stack'[i - 1].end
      <4>1. i \in 2..Len(stack) /\ i \in 1..(Len(stack) - 1) /\ i - 1 \in 1..(Len(stack) - 1)
        BY <1>4, <2>9
      <4>2. stack[i].end > RootEnd /\ stack[i].end >= stack[i - 1].end
        BY <4>1 DEF IInv, Shape, Ends
      <4> QED BY <2>9, <4>1, <4>2
    <3> QED BY <3>1, <3>2 DEF Ends
  <2>12. TypeOK'
    BY <1>2, <1>4, <2>1, <2>6, <2>8, <2>9 DEF IInv, TypeOK
  <2>13. Shape'
    <3>1. TargetFits /\ stack[Len(stack) - 1].end \in Nat
      BY <1>under, <2>7 DEF IInv, Shape
    <3> QED BY <2>1, <2>6, <2>8, <2>10, <2>11, <3>1 DEF Shape
  <2> QED BY <2>6, <2>12, <2>13 DEF IInv
<1> QED BY <1>5, <1>6

LEMMA OthersStep == ASSUME IInv, Others PROVE IInv' /\ Abstract
<1>1. PICK n \in {m \in Node : Inside(m)} :
         \/ /\ tree[n] = "none"
            /\ tree[Removal!Parent(n)] = "dir"
            /\ tree' = [tree EXCEPT ![n] = "file"]
         \/ /\ tree[n] = "file"
            /\ tree' = [tree EXCEPT ![n] = "none"]
  BY DEF Others
<1>inside. n \in Node /\ Inside(n) /\ n # Target /\ n # <<>>
  BY InsideIsOther
<1>2. /\ op \notin Ended /\ changes' = changes + 1 /\ changes < MaxChanges
      /\ UNCHANGED <<str, stack, op>>
  BY DEF Others
<1>3. Status' = Status /\ Top' = Top /\ tree[Target] = "dir"
  BY <1>2 DEF Status, Top, IInv, Shape, Ended
<1>4. Removal!IsTree(tree') /\ tree'[Target] = "dir" /\ Abstract
  <2>1. CASE tree[n] = "file" /\ tree' = [tree EXCEPT ![n] = "none"]
    <3>1. Removal!Entries(tree, n) = {}
      BY <1>inside, <2>1, OnlyDirectoriesHaveEntries DEF IInv, TypeOK
    <3> QED BY <1>inside, <1>3, <2>1, <3>1, RemoveStep DEF IInv
  <2>2. CASE /\ tree[n] = "none"
             /\ tree[Removal!Parent(n)] = "dir"
             /\ tree' = [tree EXCEPT ![n] = "file"]
    <3>1. Removal!IsTree(tree')
      BY <1>inside, <2>2, CreationLeavesTree DEF IInv, TypeOK
    <3>2. tree \in [Node -> Removal!Kind] /\ Target \in Node
      BY TargetAssumption DEF IInv, TypeOK, Removal!IsTree, Node
    <3>3. tree'[Target] = "dir"
      BY <1>inside, <1>3, <2>2, <3>2
    <3>4. Removal!Create(n, "file") /\ "file" \in Removal!Kind
      BY <1>inside, <1>3, <2>2 DEF Removal!Create, Removal!Kind, Inside
    <3>5. Abstract
      BY <1>inside, <3>4 DEF Abstract, Removal!Next, Node
    <3> QED BY <3>1, <3>3, <3>5
  <2> QED BY <1>1, <2>1, <2>2
<1>5. TypeOK'
  BY <1>2, <1>4, DepthAssumption DEF IInv, TypeOK
<1>6. Shape'
  BY <1>2, <1>3, <1>4 DEF IInv, Shape
<1> QED BY <1>4, <1>5, <1>6 DEF IInv

LEMMA NextStep == ASSUME IInv, [Next]_vars PROVE IInv' /\ Abstract
<1>1. CASE UNCHANGED vars
  <2>1. UNCHANGED <<tree, str, stack, op, changes>> /\ Top' = Top
    BY <1>1 DEF vars, Top
  <2>2. IInv'
    BY <2>1 DEF IInv, TypeOK, Shape
  <2> QED BY <2>1, <2>2, Stutter DEF Status
<1>2. CASE Next
  BY <1>2, OpendirStep, ReaddirEntryStep, ReaddirEndStep, UnlinkStep, ClosedirStep,
     RmdirStep, ErrorStep, OthersStep DEF Next, Callback
<1> QED BY <1>1, <1>2

-----------------------------------------------------------------------------
\* The variables keep their types: in particular the stack stays within the
\* array and the string within the buffer (fs.hpp:555-569; str.hpp:21-45).
THEOREM TypeCorrect == TargetFits /\ Spec => []TypeOK
<1>1. Init /\ TargetFits => IInv
  BY InitType, InitShape DEF IInv
<1>2. IInv /\ [Next]_vars => IInv'
  BY NextStep
<1>3. IInv => TypeOK
  BY DEF IInv
<1> QED BY <1>1, <1>2, <1>3, PTL DEF Spec

\* fs_rm_rf implements TreeRemoval if the path of the directory, a slash and
\* one more character fit the buffer: whatever is beside it, and wherever the
\* paths of what it contains are cut, only what is inside and has no content
\* left is removed, and the sender says "done" in the step in which the
\* directory itself goes (fs.hpp:518-712).
THEOREM ImplementsRemoval == TargetFits /\ Spec => RemovalSpec
<1>1. Init /\ TargetFits => IInv
  BY InitType, InitShape DEF IInv
<1>2. Init => Removal!Init
  BY DEF Init, Removal!Init, Status, Ended
<1>3. IInv /\ [Next]_vars => IInv' /\ [Removal!Next]_(Removal!removalVars)
  BY NextStep DEF Abstract
<1> QED BY <1>1, <1>2, <1>3, PTL DEF Spec, RemovalSpec, Removal!Spec

-----------------------------------------------------------------------------
\* The walk: what the buffer and the stack say about the tree.

\* The entries of the stack whose directories are open.
Opened == IF op = "opendir" THEN 1..(Len(stack) - 1) ELSE 1..Len(stack)

\* How the buffer names a directory: with a slash, unless there is no room.
Slashed(s, n) == s = Append(Path[n], Slash) \/ (s = Path[n] /\ Len(s) = Capacity)

\* Every open directory has its name in the buffer, up to its own end.
Named ==
    /\ op = "opendir" => (Len(str) = Capacity \/ str[Len(str)] = Slash)
    /\ \A i \in Opened : Slashed(SubSeq(str, 1, stack[i].end), stack[i].node)

\* The open directories still exist, each as deep as its place in the stack
\* below the one to remove.
Open ==
    \A i \in Opened : Len(stack[i].node) = Len(Target) + (i - 1) /\ tree[stack[i].node] = "dir"

\* A directory that a handle still has to return still exists.
ListedThere ==
    \A i \in Opened : \A x \in DOMAIN stack[i].listed \ stack[i].seen :
        stack[i].listed[x] = "dir" =>
            Append(stack[i].node, x) \in Node /\ tree[Append(stack[i].node, x)] = "dir"

\* Each open directory is an entry that the handle below it has returned.
Nested ==
    \A i \in Opened \ {1} :
        \E x \in stack[i - 1].seen : stack[i].node = Append(stack[i - 1].node, x)

\* So is the directory that is about to be opened.
Entered ==
    op = "opendir" /\ Len(stack) > 1 =>
        \E x \in stack[Len(stack) - 1].seen :
            LET c == Append(stack[Len(stack) - 1].node, x)
            IN  c \in Node /\ tree[c] = "dir" /\ Names(str, c)

Regular == Open /\ ListedThere /\ Nested /\ Entered

\* A directory inside whose path does not fit the buffer: it cannot be removed.
TooLong == \E n \in Node : Inside(n) /\ tree[n] = "dir" /\ Len(Path[n]) > Capacity

WalkInv == op \in {"done", "failed"} \/ (Named /\ (Regular \/ TooLong))

LEMMA StackFacts ==
  ASSUME IInv
  PROVE  /\ stack \in Seq(Entry) /\ Len(stack) \in Nat \ {0} /\ Len(stack) <= Depth
         /\ Depth \in Nat
         /\ \A i \in 1..Len(stack) : stack[i] \in Entry /\ stack[i].node \in Node
                                       /\ stack[i].end \in Nat \ {0}
         /\ str \in Seq(Char) /\ Len(str) \in Nat /\ Len(str) <= Capacity /\ Capacity \in Nat
         /\ Top.end <= Len(str) /\ Top.end \in Nat
<1>1. stack \in Seq(Entry) /\ Len(stack) \in Nat \ {0} /\ Len(stack) <= Depth /\ Depth \in Nat
  BY DepthAssumption DEF IInv, TypeOK
<1>2. \A i \in 1..Len(stack) : stack[i] \in Entry
  BY <1>1
<1>3. \A e \in Entry : e.node \in Node /\ e.end \in Nat \ {0}
  BY EndFacts DEF Entry
<1>4. str \in Seq(Char) /\ Len(str) \in Nat /\ Len(str) <= Capacity /\ Capacity \in Nat
  BY CapacityAssumption DEF IInv, TypeOK
<1>5. Top.end <= Len(str) /\ Top.end \in Nat
  BY EndBounds DEF IInv, Shape
<1> QED BY <1>1, <1>2, <1>3, <1>4, <1>5

\* The ends grow towards the top.
LEMMA SortedEnds ==
  ASSUME IInv, NEW k \in 1..Len(stack), NEW i \in 1..k
  PROVE  stack[i].end <= stack[k].end
<1> DEFINE last == stack[k].end
           T == {d \in Nat : \E j \in 1..k : j + d = k /\ stack[j].end > last}
<1>1. /\ Len(stack) \in Nat \ {0} /\ k \in Nat /\ last \in Nat
      /\ \A j \in 1..k : stack[j].end \in Nat
  BY StackFacts
<1> HIDE DEF last
<1>2. ASSUME NEW d \in T, \A e \in T : d <= e PROVE FALSE
  <2>1. PICK j \in 1..k : j + d = k /\ stack[j].end > last
    OBVIOUS
  <2>2. d # 0
    BY <1>1, <2>1 DEF last
  <2>3. /\ j + 1 \in 2..Len(stack) /\ (j + 1) - 1 = j /\ d - 1 \in Nat /\ d \in Nat
        /\ j + 1 \in 1..k /\ (j + 1) + (d - 1) = k
    BY <1>1, <2>1, <2>2
  <2>4. stack[j + 1].end >= stack[j].end
    BY <2>3 DEF IInv, Shape, Ends
  <2>5. stack[j + 1].end > last
    <3>1. stack[j].end \in Nat /\ stack[j + 1].end \in Nat
      BY <1>1, <2>1, <2>3
    <3>2. \A a, b, c \in Nat : a > b /\ c >= a => c > b
      OBVIOUS
    <3> QED BY <1>1, <2>1, <2>4, <3>1, <3>2
  <2>6. d - 1 \in T
    BY <2>3, <2>5
  <2> HIDE DEF T
  <2>7. d <= d - 1
    BY <1>2, <2>6
  <2> QED BY <2>3, <2>7
<1>3. T = {}
  <2> HIDE DEF T
  <2>1. T \in SUBSET Nat
    BY DEF T
  <2> QED BY <1>2, <2>1, LeastNumber
<1>4. ASSUME ~(stack[i].end <= last) PROVE FALSE
  <2>1. stack[i].end > last /\ k - i \in Nat /\ i + (k - i) = k
    BY <1>1, <1>4
  <2>2. k - i \in T
    BY <2>1
  <2> QED BY <1>3, <2>2
<1> QED BY <1>4 DEF last

LEMMA EndsBelowTop ==
  ASSUME IInv, NEW i \in 1..Len(stack)
  PROVE  stack[i].end \in 0..Top.end
<1>1. stack[i].end \in Nat /\ Top.end \in Nat /\ Len(stack) \in 1..Len(stack)
  BY StackFacts
<1>2. stack[i].end <= Top.end
  BY <1>1, SortedEnds DEF Top
<1> QED BY <1>1, <1>2

\* Writing behind an end leaves what is before it.
LEMMA PutKeeps ==
  ASSUME IInv, NEW end \in Nat, end <= Len(str), NEW s \in Seq(Char), NEW e \in 0..end
  PROVE  SubSeq(Put(end, s), 1, e) = SubSeq(str, 1, e)
<1> DEFINE whole == SubSeq(str, 1, end) \o s
<1>1. str \in Seq(Char) /\ Len(str) \in Nat /\ Len(str) <= Capacity /\ Capacity \in Nat
  BY StackFacts
<1>2. /\ whole \in Seq(Char) /\ Len(whole) \in Nat /\ end <= Len(whole)
      /\ \A i \in 1..end : whole[i] = str[i]
  BY <1>1
<1>3. /\ Put(end, s) \in Seq(Char) /\ Len(Put(end, s)) \in Nat
      /\ end <= Len(Put(end, s))
      /\ \A i \in 1..end : Put(end, s)[i] = str[i]
  <2>1. CASE Len(whole) > Capacity
    <3>1. Put(end, s) = SubSeq(whole, 1, Capacity)
      BY <2>1 DEF Put, Cut
    <3> HIDE DEF whole
    <3>2. /\ SubSeq(whole, 1, Capacity) \in Seq(Char)
          /\ Len(SubSeq(whole, 1, Capacity)) = Capacity
          /\ \A i \in 1..Capacity : SubSeq(whole, 1, Capacity)[i] = whole[i]
      BY <1>1, <1>2, <2>1
    <3> QED BY <1>1, <1>2, <3>1, <3>2
  <2>2. CASE ~(Len(whole) > Capacity)
    <3>1. Put(end, s) = whole
      BY <2>2 DEF Put, Cut
    <3> QED BY <1>2, <3>1
  <2> QED BY <2>1, <2>2
<1>4. e \in Nat /\ e <= end
  OBVIOUS
<1> DEFINE p == Put(end, s)
<1> HIDE DEF p
<1>5. /\ SubSeq(p, 1, e) \in Seq(Char) /\ Len(SubSeq(p, 1, e)) = e
      /\ SubSeq(str, 1, e) \in Seq(Char) /\ Len(SubSeq(str, 1, e)) = e
      /\ \A i \in 1..e : SubSeq(p, 1, e)[i] = p[i] /\ SubSeq(str, 1, e)[i] = str[i]
  BY <1>1, <1>3, <1>4 DEF p
<1>6. \A i \in 1..e : SubSeq(p, 1, e)[i] = SubSeq(str, 1, e)[i]
  BY <1>3, <1>4, <1>5 DEF p
<1> QED BY <1>5, <1>6, SameString DEF p

LEMMA SetEndKeeps ==
  ASSUME IInv, NEW end \in Nat, end <= Len(str), NEW e \in 0..end
  PROVE  SubSeq(SetEnd(end), 1, e) = SubSeq(str, 1, e)
<1>1. str \in Seq(Char) /\ Len(str) \in Nat
  BY StackFacts
<1> DEFINE p == SetEnd(end)
<1>2. /\ p \in Seq(Char) /\ Len(p) = end
      /\ \A i \in 1..end : p[i] = str[i]
  BY <1>1 DEF SetEnd
<1> HIDE DEF p
<1>3. /\ SubSeq(p, 1, e) \in Seq(Char) /\ Len(SubSeq(p, 1, e)) = e
      /\ SubSeq(str, 1, e) \in Seq(Char) /\ Len(SubSeq(str, 1, e)) = e
      /\ \A i \in 1..e : SubSeq(p, 1, e)[i] = p[i] /\ SubSeq(str, 1, e)[i] = str[i]
  BY <1>1, <1>2
<1>4. \A i \in 1..e : SubSeq(p, 1, e)[i] = SubSeq(str, 1, e)[i]
  BY <1>2, <1>3
<1> QED BY <1>3, <1>4, SameString DEF p

\* What returning an entry changes in the stack.
LEMMA SeenEntries ==
  ASSUME IInv, NEW x \in Name
  PROVE  /\ Len(Seen(x)) = Len(stack)
         /\ \A i \in 1..Len(stack) :
              /\ Seen(x)[i].end = stack[i].end
              /\ Seen(x)[i].node = stack[i].node
              /\ Seen(x)[i].listed = stack[i].listed
              /\ Seen(x)[i].seen =
                   IF i = Len(stack) THEN stack[i].seen \cup {x} ELSE stack[i].seen
<1>1. stack \in Seq(Entry) /\ Len(stack) \in Nat \ {0}
  BY StackFacts
<1> DEFINE e == [stack[Len(stack)] EXCEPT !.seen = @ \cup {x}]
<1>2. stack[Len(stack)] \in Entry
  BY <1>1
<1>3. /\ e.end = stack[Len(stack)].end /\ e.node = stack[Len(stack)].node
      /\ e.listed = stack[Len(stack)].listed
      /\ e.seen = stack[Len(stack)].seen \cup {x}
  BY <1>2 DEF Entry
<1>4. Seen(x) = [stack EXCEPT ![Len(stack)] = e]
  BY <1>1 DEF Seen
<1> HIDE DEF e
<1>5. Len(Seen(x)) = Len(stack)
  BY <1>1, <1>4
<1>6. \A i \in 1..Len(stack) : Seen(x)[i] = IF i = Len(stack) THEN e ELSE stack[i]
  BY <1>1, <1>4
<1> QED BY <1>3, <1>5, <1>6

\* Only the removal of a directory that the buffer names takes one away.
LEMMA DirsStay ==
  ASSUME IInv, Next, NEW n \in Node, tree[n] = "dir"
  PROVE  tree'[n] = "dir" \/ (op = "rmdir" /\ Names(str, n))
<1>1. tree \in [Node -> Removal!Kind]
  BY DEF IInv, TypeOK, Removal!IsTree, Node
<1>2. CASE OnUnlink
  BY <1>1, <1>2 DEF OnUnlink, CanUnlink
<1>3. CASE OnRmdir
  BY <1>1, <1>3 DEF OnRmdir, CanRmdir
<1>4. CASE Others
  BY <1>1, <1>4 DEF Others
<1>5. CASE OnOpendir \/ OnReaddirEntry \/ OnReaddirEnd \/ OnClosedir \/ OnError
  BY <1>5 DEF OnOpendir, OnReaddirEntry, OnReaddirEnd, OnClosedir, OnError
<1> QED BY <1>2, <1>3, <1>4, <1>5 DEF Next, Callback

LEMMA NamesFits ==
  ASSUME IInv, NEW n \in Node, Names(str, n)
  PROVE  Len(Path[n]) <= Capacity
<1>1. str \in Seq(Char) /\ Len(str) \in Nat /\ Len(str) <= Capacity /\ Capacity \in Nat
  BY StackFacts
<1>2. Path[n] \in Seq(Char) /\ Len(Path[n]) \in Nat /\ Slash \in Char
  BY PathBounds, NameAssumption
<1>3. Len(Append(Path[n], Slash)) = Len(Path[n]) + 1
  BY <1>2
<1> QED BY <1>1, <1>2, <1>3 DEF Names

LEMMA TooLongStays == ASSUME IInv, Next, TooLong PROVE TooLong'
<1>1. PICK n \in Node : Inside(n) /\ tree[n] = "dir" /\ Len(Path[n]) > Capacity
  BY DEF TooLong
<1>2. ~Names(str, n)
  BY <1>1, NamesFits, PathBounds, CapacityAssumption
<1> QED BY <1>1, <1>2, DirsStay DEF TooLong

LEMMA SlashJoin ==
  ASSUME NEW p \in Seq(Char), NEW x \in Seq(Char)
  PROVE  Append(p, Slash) \o Append(x, Slash) = Append(p \o <<Slash>> \o x, Slash)
<1> DEFINE l == Append(p, Slash) \o Append(x, Slash)
           r == Append(p \o <<Slash>> \o x, Slash)
<1>0. Slash \in Char
  BY NameAssumption
<1>1. l \in Seq(Char) /\ Len(l) = Len(p) + Len(x) + 2
  BY <1>0
<1>2. r \in Seq(Char) /\ Len(r) = Len(p) + Len(x) + 2
  BY <1>0
<1>3. Len(p) \in Nat /\ Len(x) \in Nat
  OBVIOUS
<1>4. \A i \in 1..Len(p) : l[i] = r[i]
  BY <1>0, <1>3
<1>5. l[Len(p) + 1] = r[Len(p) + 1]
  BY <1>0, <1>3
<1>6. \A i \in 1..Len(x) : l[Len(p) + 1 + i] = r[Len(p) + 1 + i]
  BY <1>0, <1>3
<1>7. l[Len(p) + Len(x) + 2] = r[Len(p) + Len(x) + 2]
  BY <1>0, <1>3
<1>8. ASSUME NEW i \in 1..Len(l) PROVE l[i] = r[i]
  <2> HIDE DEF l, r
  <2>0. i \in Nat \ {0} /\ i <= Len(p) + Len(x) + 2
    BY <1>1, <1>3
  <2>1. CASE i <= Len(p)
    BY <1>3, <1>4, <2>1
  <2>2. CASE i = Len(p) + 1
    BY <1>5, <2>2
  <2>3. CASE i > Len(p) + 1 /\ i <= Len(p) + 1 + Len(x)
    <3>1. i - (Len(p) + 1) \in 1..Len(x) /\ Len(p) + 1 + (i - (Len(p) + 1)) = i
      BY <1>3, <2>3
    <3> QED BY <1>6, <3>1
  <2>4. CASE i = Len(p) + Len(x) + 2
    BY <1>7, <2>4
  <2> QED BY <1>3, <2>0, <2>1, <2>2, <2>3, <2>4
<1> HIDE DEF l, r
<1> QED BY <1>1, <1>2, <1>8, SameString DEF l, r

\* The string of a directory and the name of an entry make the entry's.
LEMMA EntryString ==
  ASSUME IInv, NEW n \in Node, NEW x \in Name, Append(n, x) \in Node,
         Slashed(SubSeq(str, 1, Top.end), n), Len(Path[Append(n, x)]) <= Capacity
  PROVE  Names(Put(Top.end, Append(x, Slash)), Append(n, x))
<1> DEFINE c == Append(n, x)
           p == Path[n]
           q == Path[c]
           base == SubSeq(str, 1, Top.end)
           whole == base \o Append(x, Slash)
<1>1. /\ p \in Seq(Char) /\ q \in Seq(Char) /\ x \in Seq(Char) /\ Slash \in Char
      /\ Len(p) \in Nat /\ Len(q) \in Nat /\ Len(x) \in Nat \ {0} /\ Capacity \in Nat
  BY PathBounds, NameAssumption, CapacityAssumption
<1>2. q = p \o <<Slash>> \o x
  <2>1. c # <<>> /\ Removal!Parent(c) = n
    BY AppendParent
  <2>2. c[Len(c)] = x
    BY NodeIsSeq
  <2> QED BY <2>1, <2>2, PathAssumption
<1>3. base = Append(p, Slash) \/ (base = p /\ Len(p) = Capacity)
  BY DEF Slashed
<1> HIDE DEF c, p, q, base
<1>4. Len(q) = Len(p) + 1 + Len(x) /\ Len(q) <= Capacity
  BY <1>1, <1>2 DEF q, c
<1>5. base = Append(p, Slash)
  BY <1>1, <1>3, <1>4
<1>6. whole = Append(q, Slash)
  BY <1>1, <1>2, <1>5, SlashJoin
<1> HIDE DEF whole
<1>7. Len(whole) = Len(q) + 1
  BY <1>1, <1>6
<1>8. CASE Len(whole) > Capacity
  <2>1. Len(q) = Capacity
    BY <1>1, <1>4, <1>7, <1>8, SMTT(30)
  <2>2. SubSeq(Append(q, Slash), 1, Len(q)) = q
    <3>1. /\ SubSeq(Append(q, Slash), 1, Len(q)) \in Seq(Char)
          /\ Len(SubSeq(Append(q, Slash), 1, Len(q))) = Len(q)
          /\ \A i \in 1..Len(q) : SubSeq(Append(q, Slash), 1, Len(q))[i] = q[i]
      BY <1>1
    <3> QED BY <1>1, <3>1, SameString
  <2>3. Put(Top.end, Append(x, Slash)) = q
    BY <1>6, <1>8, <2>1, <2>2 DEF Put, Cut, base, whole
  <2> QED BY <2>3 DEF Names, q, c
<1>9. CASE ~(Len(whole) > Capacity)
  <2>1. Put(Top.end, Append(x, Slash)) = Append(q, Slash)
    BY <1>6, <1>9 DEF Put, Cut, base, whole
  <2> QED BY <2>1 DEF Names, q, c
<1> QED BY <1>8, <1>9

\* A directory's string ends with the slash, or where the buffer does.
LEMMA PutEnds ==
  ASSUME IInv, NEW x \in Name
  PROVE  LET s == Put(Top.end, Append(x, Slash))
         IN  Len(s) = Capacity \/ s[Len(s)] = Slash
<1> DEFINE base == SubSeq(str, 1, Top.end)
           whole == base \o Append(x, Slash)
<1>1. /\ str \in Seq(Char) /\ Len(str) \in Nat /\ Capacity \in Nat /\ x \in Seq(Char)
      /\ Slash \in Char /\ Top.end <= Len(str) /\ Top.end \in Nat /\ Len(x) \in Nat
  BY StackFacts, NameAssumption
<1>2. base \in Seq(Char) /\ Len(base) \in Nat
  BY <1>1
<1> HIDE DEF base
<1>3. /\ whole \in Seq(Char) /\ Len(whole) = Len(base) + Len(x) + 1
      /\ whole[Len(whole)] = Slash
  BY <1>1, <1>2
<1>4. CASE Len(whole) > Capacity
  <2>1. Put(Top.end, Append(x, Slash)) = SubSeq(whole, 1, Capacity)
    BY <1>4 DEF Put, Cut, base
  <2> HIDE DEF whole
  <2>2. Len(SubSeq(whole, 1, Capacity)) = Capacity
    BY <1>1, <1>2, <1>3, <1>4
  <2> QED BY <2>1, <2>2
<1>5. CASE ~(Len(whole) > Capacity)
  BY <1>3, <1>5 DEF Put, Cut, base
<1> QED BY <1>4, <1>5

\* The invariant as the steps use it.
Walking == Named /\ (Regular \/ TooLong)

\* A step that leaves the stack's entries, except what they have returned,
\* and the buffer up to the top's end, leaves the walk regular, as long as
\* the directories stay.
LEMMA SamePlaces ==
  ASSUME IInv, Named, op # "opendir", op' # "opendir",
         NEW k \in 1..Len(stack), Len(stack') = k,
         \A i \in 1..k : /\ stack'[i].end = stack[i].end
                        /\ stack'[i].node = stack[i].node
                        /\ stack'[i].listed = stack[i].listed
                        /\ stack[i].seen \subseteq stack'[i].seen
                        /\ SubSeq(str', 1, stack[i].end) = SubSeq(str, 1, stack[i].end)
  PROVE  /\ Named'
         /\ Regular /\ (\A i \in 1..k :
               /\ tree[stack[i].node] = "dir" => tree'[stack[i].node] = "dir"
               /\ \A x \in DOMAIN stack[i].listed \ stack[i].seen :
                    Append(stack[i].node, x) \in Node
                      /\ tree[Append(stack[i].node, x)] = "dir"
                         => tree'[Append(stack[i].node, x)] = "dir") => Regular'
<1>1. Opened = 1..Len(stack) /\ Opened' = 1..k /\ 1..k \subseteq 1..Len(stack)
  BY StackFacts DEF Opened
<1>2. Named'
  BY <1>1 DEF Named
<1>3. ASSUME Regular,
             \A i \in 1..k :
               /\ tree[stack[i].node] = "dir" => tree'[stack[i].node] = "dir"
               /\ \A x \in DOMAIN stack[i].listed \ stack[i].seen :
                    Append(stack[i].node, x) \in Node
                      /\ tree[Append(stack[i].node, x)] = "dir"
                         => tree'[Append(stack[i].node, x)] = "dir"
      PROVE  Regular'
  <2>1. Open'
    <3> SUFFICES ASSUME NEW i \in 1..k
                 PROVE  /\ Len(stack'[i].node) = Len(Target) + (i - 1)
                        /\ tree'[stack'[i].node] = "dir"
      BY <1>1 DEF Open
    <3>1. Len(stack[i].node) = Len(Target) + (i - 1) /\ tree[stack[i].node] = "dir"
      BY <1>1, <1>3 DEF Regular, Open
    <3> QED BY <1>3, <3>1
  <2>2. ListedThere'
    <3> SUFFICES ASSUME NEW i \in 1..k, NEW x \in DOMAIN stack'[i].listed \ stack'[i].seen,
                        stack'[i].listed[x] = "dir"
                 PROVE  /\ Append(stack'[i].node, x) \in Node
                        /\ tree'[Append(stack'[i].node, x)] = "dir"
      BY <1>1 DEF ListedThere
    <3>1. x \in DOMAIN stack[i].listed \ stack[i].seen /\ stack[i].listed[x] = "dir"
      OBVIOUS
    <3>2. Append(stack[i].node, x) \in Node /\ tree[Append(stack[i].node, x)] = "dir"
      BY <1>1, <1>3, <3>1 DEF Regular, ListedThere
    <3> QED BY <1>3, <3>1, <3>2
  <2>3. Nested'
    <3> SUFFICES ASSUME NEW i \in 1..k, i # 1
                 PROVE  \E x \in stack'[i - 1].seen :
                          stack'[i].node = Append(stack'[i - 1].node, x)
      BY <1>1 DEF Nested
    <3>1. i - 1 \in 1..k
      BY StackFacts
    <3>2. PICK x \in stack[i - 1].seen : stack[i].node = Append(stack[i - 1].node, x)
      BY <1>1, <1>3 DEF Regular, Nested
    <3> QED BY <3>1, <3>2
  <2>4. Entered'
    BY DEF Entered
  <2> QED BY <2>1, <2>2, <2>3, <2>4 DEF Regular
<1> QED BY <1>2, <1>3

LEMMA TopNamed ==
  ASSUME IInv, Named, op \in {"readdir", "closedir", "rmdir"}
  PROVE  Slashed(str, Top.node) /\ Names(str, Top.node)
<1>1. Slashed(SubSeq(str, 1, Top.end), Top.node)
  BY StackFacts DEF Named, Opened, Top
<1>2. SubSeq(str, 1, Top.end) = str
  <2>1. Len(str) = Top.end /\ str \in Seq(Char) /\ Len(str) \in Nat
    BY StackFacts DEF IInv, Shape
  <2>2. /\ SubSeq(str, 1, Len(str)) \in Seq(Char) /\ Len(SubSeq(str, 1, Len(str))) = Len(str)
        /\ \A i \in 1..Len(str) : SubSeq(str, 1, Len(str))[i] = str[i]
    BY <2>1
  <2> QED BY <2>1, <2>2, SameString
<1> QED BY <1>1, <1>2 DEF Slashed, Names

LEMMA UnlinkWalks == ASSUME IInv, Walking, OnUnlink PROVE Walking'
<1>1. /\ op = "unlink" /\ op' = "readdir" /\ UNCHANGED <<stack, changes>>
      /\ str' = SetEnd(Top.end)
  BY DEF OnUnlink
<1>2. Next
  BY DEF Next, Callback
<1>3. \A i \in 1..Len(stack) :
        SubSeq(str', 1, stack[i].end) = SubSeq(str, 1, stack[i].end)
  <2> SUFFICES ASSUME NEW i \in 1..Len(stack)
               PROVE  SubSeq(str', 1, stack[i].end) = SubSeq(str, 1, stack[i].end)
    OBVIOUS
  <2>1. Top.end \in Nat /\ Top.end <= Len(str) /\ stack[i].end \in 0..Top.end
    BY StackFacts, EndsBelowTop
  <2> QED BY <1>1, <2>1, SetEndKeeps
<1>4. \A n \in Node : tree[n] = "dir" => tree'[n] = "dir"
  BY <1>1, <1>2, DirsStay
<1>5. Len(stack) \in 1..Len(stack)
  BY StackFacts
<1>6. \A i \in 1..Len(stack) : stack[i].node \in Node
  BY StackFacts
<1>7. Named' /\ (Regular => Regular')
  BY <1>1, <1>3, <1>4, <1>5, <1>6, SamePlaces DEF Walking
<1> QED BY <1>2, <1>7, TooLongStays DEF Walking

\* A handle that reaches its end or closes, and a change by others.
LEMMA StayWalks ==
  ASSUME IInv, Walking, op \notin Ended, OnReaddirEnd \/ OnClosedir \/ Others
  PROVE  Walking' /\ op' # "crashed"
<1>0. /\ Next /\ UNCHANGED <<str, stack>>
      /\ (op = "opendir") <=> (op' = "opendir")
      /\ op' # "crashed"
  BY DEF OnReaddirEnd, OnClosedir, Others, Next, Callback, Ended
<1>1. \A n \in Node : tree[n] = "dir" => tree'[n] = "dir"
  <2>1. tree \in [Node -> Removal!Kind]
    BY DEF IInv, TypeOK, Removal!IsTree, Node
  <2> QED BY <2>1 DEF OnReaddirEnd, OnClosedir, Others
<1>2. Opened' = Opened /\ Opened \subseteq 1..Len(stack)
  BY <1>0, StackFacts DEF Opened
<1>3. Named'
  BY <1>0, <1>2 DEF Walking, Named, Slashed
<1>4. \A i \in 1..Len(stack) : stack[i].node \in Node
  BY StackFacts
<1>5. Regular => Regular'
  BY <1>0, <1>1, <1>2, <1>4 DEF Regular, Open, ListedThere, Nested, Entered, Names
<1> QED BY <1>0, <1>3, <1>5, TooLongStays DEF Walking

LEMMA RmdirWalks == ASSUME IInv, Walking, OnRmdir, op' # "done" PROVE Walking'
<1>1. /\ op = "rmdir" /\ op' = "readdir" /\ Len(stack) # 1
      /\ stack' = SubSeq(stack, 1, Len(stack) - 1)
      /\ str' = SetEnd(stack[Len(stack) - 1].end)
  BY DEF OnRmdir, Last
<1>2. Next
  BY DEF Next, Callback
<1> DEFINE k == Len(stack) - 1
<1>3. stack \in Seq(Entry) /\ Len(stack) \in Nat /\ Len(stack) >= 1
  BY StackFacts
<1>4. k \in Nat /\ k >= 1 /\ Len(stack) = k + 1
  <2>1. \A l \in Nat : l >= 1 /\ l # 1 => l - 1 \in Nat /\ l - 1 >= 1 /\ l = (l - 1) + 1
    OBVIOUS
  <2> QED BY <1>1, <1>3, <2>1
<1> HIDE DEF k
<1>5. k \in 1..Len(stack) /\ \A i \in 1..k : i \in 1..Len(stack)
  BY <1>3, <1>4
<1>6. Len(stack') = k /\ \A i \in 1..k : stack'[i] = stack[i]
  BY <1>1, <1>3, <1>4, <1>5 DEF k
<1>7. \A i \in 1..k :
        SubSeq(str', 1, stack[i].end) = SubSeq(str, 1, stack[i].end)
  <2> SUFFICES ASSUME NEW i \in 1..k
               PROVE  SubSeq(str', 1, stack[i].end) = SubSeq(str, 1, stack[i].end)
    OBVIOUS
  <2>1. /\ stack[k].end \in Nat /\ stack[i].end \in Nat /\ stack[k].end <= Len(str)
        /\ Len(str) \in Nat
    BY <1>5, StackFacts, EndsBelowTop
  <2>2. stack[i].end \in 0..stack[k].end
    BY <1>5, <2>1, SortedEnds
  <2> QED BY <1>1, <2>1, <2>2, SetEndKeeps DEF k
<1>8. Names(str, Top.node) /\ Top = stack[k + 1]
  BY <1>1, <1>4, TopNamed DEF Walking, Top
<1>9. ASSUME NEW n \in Node, n # Top.node, tree[n] = "dir" PROVE tree'[n] = "dir"
  <2>1. Top.node \in Node
    BY <1>4, <1>8, StackFacts
  <2> QED BY <1>2, <1>8, <1>9, <2>1, DirsStay, NamesOne
<1>10. Regular => \A i \in 1..k :
               /\ tree[stack[i].node] = "dir" => tree'[stack[i].node] = "dir"
               /\ \A x \in DOMAIN stack[i].listed \ stack[i].seen :
                    Append(stack[i].node, x) \in Node
                      /\ tree[Append(stack[i].node, x)] = "dir"
                         => tree'[Append(stack[i].node, x)] = "dir"
  <2> SUFFICES ASSUME Regular, NEW i \in 1..k
               PROVE  /\ tree[stack[i].node] = "dir" => tree'[stack[i].node] = "dir"
                      /\ \A x \in DOMAIN stack[i].listed \ stack[i].seen :
                           Append(stack[i].node, x) \in Node
                             /\ tree[Append(stack[i].node, x)] = "dir"
                                => tree'[Append(stack[i].node, x)] = "dir"
    OBVIOUS
  <2>0. Len(Target) \in Nat
    BY TargetAssumption, NodeIsSeq, HeightAssumption
  <2>1. /\ stack[i].node \in Node /\ Len(stack[i].node) = Len(Target) + (i - 1)
        /\ i \in 1..Len(stack)
        /\ Len(Top.node) = Len(Target) + k /\ stack[i].node \in Seq(Name)
    <3>1. Opened = 1..(k + 1) /\ k + 1 \in 1..(k + 1) /\ i \in 1..(k + 1)
      BY <1>1, <1>4 DEF Opened
    <3>2. /\ Len(stack[i].node) = Len(Target) + (i - 1)
          /\ Len(stack[k + 1].node) = Len(Target) + ((k + 1) - 1)
      BY <3>1 DEF Regular, Open
    <3>3. stack[i].node \in Node /\ i \in 1..Len(stack)
      BY <1>5, StackFacts
    <3> QED BY <1>4, <1>8, <3>2, <3>3, NodeIsSeq
  <2>2. stack[i].node # Top.node
    BY <1>4, <2>0, <2>1
  <2>3. ASSUME NEW x \in DOMAIN stack[i].listed \ stack[i].seen,
               Append(stack[i].node, x) \in Node
        PROVE  Append(stack[i].node, x) # Top.node
    <3>1. x \in Name
      <4>1. stack[i] \in Entry
        BY <2>1, StackFacts
      <4>2. PICK S \in SUBSET Name : stack[i].listed \in [S -> Removal!Kind]
        BY <4>1 DEF Entry
      <4> QED BY <4>2
    <3>2. Len(Append(stack[i].node, x)) = Len(Target) + i
      BY <2>0, <2>1, <3>1
    <3>3. CASE i # k
      BY <1>4, <2>0, <2>1, <3>2, <3>3
    <3>4. CASE i = k
      <4>1. k + 1 \in Opened \ {1} /\ (k + 1) - 1 = k
        BY <1>1, <1>4 DEF Opened
      <4>2. PICK y \in stack[k].seen : stack[k + 1].node = Append(stack[k].node, y)
        BY <4>1 DEF Regular, Nested
      <4>3. x # y
        BY <3>4, <4>2
      <4>4. stack[k].node \in Seq(Name)
        BY <2>1, <3>4
      <4>5. Append(stack[k].node, x) # Append(stack[k].node, y)
        BY <4>3, <4>4
      <4> QED BY <1>8, <3>4, <4>2, <4>5
    <3> QED BY <3>3, <3>4
  <2> QED BY <1>9, <2>1, <2>2, <2>3
<1>11. Named' /\ (Regular => Regular')
  BY <1>1, <1>5, <1>6, <1>7, <1>10, SamePlaces DEF Walking
<1> QED BY <1>2, <1>11, TooLongStays DEF Walking

LEMMA OpendirWalks == ASSUME IInv, Walking, OnOpendir PROVE Walking'
<1>1. PICK n \in Node :
        /\ Names(str, n)
        /\ tree[n] = "dir"
        /\ stack' = [stack EXCEPT ![Len(stack)] =
             [end |-> Top.end, node |-> n, seen |-> {},
              listed |-> [x \in Removal!Entries(tree, n) |-> tree[Append(n, x)]]]]
  BY DEF OnOpendir
<1>2. op = "opendir" /\ op' = "readdir" /\ UNCHANGED <<tree, str, changes>>
  BY DEF OnOpendir
<1> DEFINE e == [end |-> Top.end, node |-> n, seen |-> {},
                 listed |-> [x \in Removal!Entries(tree, n) |-> tree[Append(n, x)]]]
           l == Len(stack)
<1>3. /\ e.end = Top.end /\ e.node = n /\ e.seen = {}
      /\ e.listed = [x \in Removal!Entries(tree, n) |-> tree[Append(n, x)]]
  OBVIOUS
<1>4. stack \in Seq(Entry) /\ l \in Nat \ {0}
  BY StackFacts
<1>5. stack' = [stack EXCEPT ![l] = e]
  BY <1>1
<1> HIDE DEF e
<1>6. /\ Len(stack') = l /\ stack'[l] = e
      /\ \A i \in 1..(l - 1) : stack'[i] = stack[i]
  BY <1>4, <1>5
<1>7. Opened = 1..(l - 1) /\ Opened' = 1..l
  BY <1>2, <1>6 DEF Opened
<1>8. Len(str) = Top.end /\ Len(str) \in Nat /\ str \in Seq(Char) /\ Capacity \in Nat
  BY <1>2, StackFacts DEF IInv, Shape
<1>9. SubSeq(str, 1, Top.end) = str
  <2>1. /\ SubSeq(str, 1, Len(str)) \in Seq(Char) /\ Len(SubSeq(str, 1, Len(str))) = Len(str)
        /\ \A i \in 1..Len(str) : SubSeq(str, 1, Len(str))[i] = str[i]
    BY <1>8
  <2> QED BY <1>8, <2>1, SameString
<1>10. Slashed(str, n)
  <2>1. Path[n] \in Seq(Char) /\ Len(Path[n]) \in Nat /\ Slash \in Char
    BY PathBounds, NameAssumption
  <2> SUFFICES ASSUME str = Path[n], Len(str) # Capacity PROVE FALSE
    BY <1>1 DEF Names, Slashed
  <2>2. str[Len(str)] = Slash
    BY <1>2 DEF Walking, Named
  <2>3. n # <<>>
    <3>1. Len(str) >= RootEnd /\ RootEnd \in Nat /\ RootEnd = Len(Path[Target]) + 1
      BY <1>8, EndBounds, EndFacts DEF RootEnd
    <3>2. /\ Len(Path[<<>>]) <= Len(Path[Target]) /\ Len(Path[<<>>]) \in Nat
          /\ Len(Path[Target]) \in Nat
      BY TargetAssumption, PathBounds, PathAssumption, CapacityAssumption, RootIsNode
    <3> QED BY <1>8, <3>1, <3>2
  <2>4. /\ Len(n[Len(n)]) \in Nat \ {0}
        /\ Len(Path[n]) = Len(Path[Removal!Parent(n)]) + 1 + Len(n[Len(n)])
        /\ \A i \in 1..Len(n[Len(n)]) :
             /\ Path[n][Len(Path[Removal!Parent(n)]) + 1 + i] = n[Len(n)][i]
             /\ n[Len(n)][i] # Slash
    BY <2>3, PathParts
  <2>5. Len(n[Len(n)]) \in 1..Len(n[Len(n)])
    BY <2>4
  <2> QED BY <2>2, <2>4, <2>5
<1>11. Named'
  <2> SUFFICES ASSUME NEW i \in 1..l
               PROVE  Slashed(SubSeq(str, 1, stack'[i].end), stack'[i].node)
    BY <1>2, <1>7 DEF Named, Slashed
  <2>1. CASE i = l
    BY <1>3, <1>6, <1>9, <1>10, <2>1
  <2>2. CASE i # l
    <3>1. i \in 1..(l - 1)
      BY <1>4, <2>2
    <3> QED BY <1>6, <1>7, <3>1 DEF Walking, Named
  <2> QED BY <2>1, <2>2
<1>12. ASSUME Regular PROVE Regular'
  <2>0. Len(Target) \in Nat
    BY TargetAssumption, NodeIsSeq, HeightAssumption
  <2>1. /\ l # 1 => \E x \in stack[l - 1].seen : n = Append(stack[l - 1].node, x)
        /\ Len(n) = Len(Target) + (l - 1)
    <3>1. CASE l = 1
      <4>1. Len(str) = RootEnd
        BY <1>8, <3>1 DEF IInv, Shape, Ends, Top
      <4>2. n = Target
        BY <1>1, <1>8, <4>1, EndFacts, NamedIsInside
      <4> QED BY <2>0, <3>1, <4>2
    <3>2. CASE l # 1
      <4>1. PICK x \in stack[l - 1].seen :
              /\ Append(stack[l - 1].node, x) \in Node
              /\ Names(str, Append(stack[l - 1].node, x))
        BY <1>2, <1>4, <1>12, <3>2 DEF Regular, Entered
      <4>2. n = Append(stack[l - 1].node, x)
        BY <1>1, <4>1, NamesOne
      <4>3. l - 1 \in 1..(l - 1) /\ l - 1 \in 1..l /\ l - 1 \in Nat
        <5>1. \A k \in Nat \ {0} :
                k # 1 => k - 1 \in 1..(k - 1) /\ k - 1 \in 1..k /\ k - 1 \in Nat
          OBVIOUS
        <5> HIDE DEF l
        <5> QED BY <1>4, <3>2, <5>1
      <4>4. Len(stack[l - 1].node) = Len(Target) + ((l - 1) - 1)
        BY <1>7, <1>12, <4>3 DEF Regular, Open
      <4>5. stack[l - 1].node \in Seq(Name) /\ n \in Seq(Name)
        BY <4>3, StackFacts, NodeIsSeq
      <4>6. Len(n) = Len(Target) + (l - 1)
        <5>1. Len(n) = Len(stack[l - 1].node) + 1
          BY <4>1, <4>2, <4>5, AppendLength
        <5> HIDE DEF l
        <5> QED BY <2>0, <4>3, <4>4, <5>1
      <4> QED BY <3>2, <4>2, <4>6
    <3> QED BY <3>1, <3>2
  <2>2. Open'
    <3> SUFFICES ASSUME NEW i \in 1..l
                 PROVE  /\ Len(stack'[i].node) = Len(Target) + (i - 1)
                        /\ tree[stack'[i].node] = "dir"
      BY <1>2, <1>7 DEF Open
    <3>1. CASE i = l
      BY <1>1, <1>3, <1>6, <2>1, <3>1
    <3>2. CASE i # l
      <4>1. i \in 1..(l - 1)
        BY <1>4, <3>2
      <4> QED BY <1>6, <1>7, <1>12, <4>1 DEF Regular, Open
    <3> QED BY <3>1, <3>2
  <2>3. ListedThere'
    <3> SUFFICES ASSUME NEW i \in 1..l, NEW x \in DOMAIN stack'[i].listed \ stack'[i].seen,
                        stack'[i].listed[x] = "dir"
                 PROVE  /\ Append(stack'[i].node, x) \in Node
                        /\ tree[Append(stack'[i].node, x)] = "dir"
      BY <1>2, <1>7 DEF ListedThere
    <3>1. CASE i = l
      <4>1. x \in Removal!Entries(tree, n) /\ tree[Append(n, x)] = "dir"
        BY <1>3, <1>6, <3>1
      <4> QED BY <1>3, <1>6, <3>1, <4>1 DEF Removal!Entries, Node
    <3>2. CASE i # l
      <4>1. i \in 1..(l - 1)
        BY <1>4, <3>2
      <4> QED BY <1>6, <1>7, <1>12, <4>1 DEF Regular, ListedThere
    <3> QED BY <3>1, <3>2
  <2>4. Nested'
    <3> SUFFICES ASSUME NEW i \in 1..l, i # 1
                 PROVE  \E x \in stack'[i - 1].seen :
                          stack'[i].node = Append(stack'[i - 1].node, x)
      BY <1>7 DEF Nested
    <3>1. i - 1 \in 1..(l - 1) /\ stack'[i - 1] = stack[i - 1]
      BY <1>4, <1>6
    <3>2. CASE i = l
      BY <1>3, <1>6, <2>1, <3>1, <3>2
    <3>3. CASE i # l
      <4>1. i \in 1..(l - 1)
        BY <1>4, <3>3
      <4> QED BY <1>6, <1>7, <1>12, <3>1, <4>1 DEF Regular, Nested
    <3> QED BY <3>2, <3>3
  <2>5. Entered'
    BY <1>2 DEF Entered
  <2> QED BY <2>2, <2>3, <2>4, <2>5 DEF Regular
<1>13. Next
  BY DEF Next, Callback
<1> QED BY <1>11, <1>12, <1>13, TooLongStays DEF Walking

\* An entry that is not opened: the places stay.
LEMMA SeenWalks ==
  ASSUME IInv, Walking, Next, op = "readdir", op' # "opendir", UNCHANGED tree,
         NEW x \in Name, stack' = Seen(x), NEW s \in Seq(Char), str' = Put(Top.end, s)
  PROVE  Walking' /\ (Regular => Regular')
<1>1. /\ Len(stack') = Len(stack) /\ Len(stack) \in 1..Len(stack)
      /\ \A i \in 1..Len(stack) :
           /\ stack'[i].end = stack[i].end
           /\ stack'[i].node = stack[i].node
           /\ stack'[i].listed = stack[i].listed
           /\ stack[i].seen \subseteq stack'[i].seen
  <2>1. Len(stack') = Len(stack) /\ Len(stack) \in 1..Len(stack)
    BY SeenEntries, StackFacts
  <2>2. ASSUME NEW i \in 1..Len(stack)
        PROVE  /\ stack'[i].end = stack[i].end
               /\ stack'[i].node = stack[i].node
               /\ stack'[i].listed = stack[i].listed
               /\ stack[i].seen \subseteq stack'[i].seen
    BY SeenEntries
  <2> QED BY <2>1, <2>2
<1>2. \A i \in 1..Len(stack) :
        SubSeq(str', 1, stack[i].end) = SubSeq(str, 1, stack[i].end)
  <2>1. Top.end \in Nat /\ Top.end <= Len(str)
    BY StackFacts
  <2> QED BY <2>1, EndsBelowTop, PutKeeps
<1>3. Named' /\ (Regular => Regular')
  BY <1>1, <1>2, SamePlaces DEF Walking
<1> QED BY <1>3, TooLongStays DEF Walking

\* What the innermost open directory holds is inside.
LEMMA EnteredInside ==
  ASSUME IInv, Named, op = "readdir", NEW x \in Name, Append(Top.node, x) \in Node
  PROVE  Inside(Append(Top.node, x))
<1>1. Top.node \in Node /\ Top.node \in Seq(Name)
  BY TopIsEntry, NodeIsSeq DEF IInv, Entry
<1>2. Top.node = Target \/ Inside(Top.node)
  <2>1. Names(str, Top.node)
    BY TopNamed
  <2>2. /\ str \in Seq(Char) /\ Len(str) \in Nat /\ Len(str) >= RootEnd
        /\ RootEnd \in Nat /\ UnderTarget(str)
    BY EndBounds, EndFacts DEF IInv, Shape, TypeOK
  <2>3. /\ Len(str) = RootEnd => Top.node = Target
        /\ Len(str) > RootEnd => Inside(Top.node)
    BY <1>1, <2>1, <2>2, NamedIsInside
  <2> QED BY <2>2, <2>3
<1>3. Target \in Seq(Name) /\ Len(Target) \in Nat
  BY TargetAssumption, NodeIsSeq, HeightAssumption
<1> DEFINE m == Top.node
<1>4. /\ Len(Append(m, x)) = Len(m) + 1
      /\ \A i \in 1..Len(m) : Append(m, x)[i] = m[i]
  BY <1>1
<1>5. Len(m) >= Len(Target) /\ \A i \in 1..Len(Target) : m[i] = Target[i]
  BY <1>1, <1>2, <1>3 DEF Inside, Removal!Inside
<1> HIDE DEF m
<1>6. Len(m) \in Nat
  BY <1>1 DEF m
<1>7. Len(Append(m, x)) > Len(Target) /\ \A i \in 1..Len(Target) : Append(m, x)[i] = Target[i]
  BY <1>3, <1>4, <1>5, <1>6
<1> QED BY <1>7 DEF Inside, Removal!Inside, m

LEMMA EnterWalks ==
  ASSUME IInv, Walking, Next, op = "readdir", op' = "opendir", UNCHANGED tree,
         NEW x \in Name, x \notin Top.seen, KindOf(x) = "dir",
         x \in DOMAIN Top.listed \cup Removal!Entries(tree, Top.node),
         str' = Put(Top.end, Append(x, Slash)),
         stack' = Append(Seen(x), Reserve(Len(str')))
  PROVE  Walking'
<1> DEFINE l == Len(stack)
           c == Append(Top.node, x)
<1>1. /\ l \in Nat \ {0} /\ Len(Seen(x)) = l /\ Seen(x) \in Seq(Entry)
      /\ \A i \in 1..l :
           /\ Seen(x)[i].end = stack[i].end
           /\ Seen(x)[i].node = stack[i].node
           /\ Seen(x)[i].listed = stack[i].listed
           /\ Seen(x)[i].seen = IF i = l THEN stack[i].seen \cup {x} ELSE stack[i].seen
  BY SeenEntries, SeenChanged, StackFacts
<1>2. Len(stack') = l + 1 /\ \A i \in 1..l : stack'[i] = Seen(x)[i]
  BY <1>1
<1>kept. \A i \in 1..l :
           /\ stack'[i].end = stack[i].end
           /\ stack'[i].node = stack[i].node
           /\ stack'[i].listed = stack[i].listed
           /\ stack[i].seen \subseteq stack'[i].seen
  <2> SUFFICES ASSUME NEW i \in 1..l
               PROVE  /\ stack'[i].end = stack[i].end
                      /\ stack'[i].node = stack[i].node
                      /\ stack'[i].listed = stack[i].listed
                      /\ stack[i].seen \subseteq stack'[i].seen
    OBVIOUS
  <2>1. stack'[i] = Seen(x)[i]
    BY <1>2
  <2>2. /\ Seen(x)[i].end = stack[i].end
        /\ Seen(x)[i].node = stack[i].node
        /\ Seen(x)[i].listed = stack[i].listed
        /\ Seen(x)[i].seen = IF i = l THEN stack[i].seen \cup {x} ELSE stack[i].seen
    BY <1>1
  <2> HIDE DEF l
  <2> QED BY <2>1, <2>2
<1>3. /\ Opened = 1..l /\ Opened' = 1..l /\ Top = stack[l] /\ l \in 1..l
      /\ Len(stack') - 1 = l
  BY <1>1, <1>2 DEF Opened, Top
<1> HIDE DEF l
<1>4. \A i \in 1..l :
        SubSeq(str', 1, stack[i].end) = SubSeq(str, 1, stack[i].end)
  <2>1. Top.end \in Nat /\ Top.end <= Len(str) /\ Append(x, Slash) \in Seq(Char)
    BY StackFacts, NameAssumption
  <2> QED BY <2>1, EndsBelowTop, PutKeeps DEF l
<1>5. Named'
  <2>1. Len(str') = Capacity \/ str'[Len(str')] = Slash
    BY PutEnds
  <2>2. \A i \in 1..l : Slashed(SubSeq(str', 1, stack'[i].end), stack'[i].node)
    BY <1>kept, <1>3, <1>4 DEF Walking, Named
  <2> QED BY <1>3, <2>1, <2>2 DEF Named, Slashed
<1>6. ASSUME Regular PROVE Regular' \/ TooLong'
  <2>1. c \in Node /\ tree[c] = "dir"
    <3>1. CASE x \in DOMAIN Top.listed
      BY <1>3, <1>6, <3>1 DEF KindOf, Regular, ListedThere
    <3>2. CASE x \notin DOMAIN Top.listed
      BY <3>2 DEF KindOf, Removal!Entries, Node
    <3> QED BY <3>1, <3>2
  <2>2. CASE Len(Path[c]) > Capacity
    <3>1. Inside(c)
      BY <2>1, EnteredInside DEF Walking
    <3> QED BY <2>1, <2>2, <3>1 DEF TooLong
  <2>3. CASE ~(Len(Path[c]) > Capacity)
    <3>1. Names(str', c)
      <4>1. Slashed(SubSeq(str, 1, Top.end), Top.node) /\ Top.node \in Node
        BY <1>3, StackFacts DEF Walking, Named, l
      <4>2. Len(Path[c]) <= Capacity
        BY <2>1, <2>3, PathBounds, CapacityAssumption
      <4> QED BY <2>1, <4>1, <4>2, EntryString
    <3>2. Entered'
      <4>1. x \in stack'[l].seen /\ stack'[l].node = Top.node
        BY <1>1, <1>2, <1>3, ZenonT(30)
      <4> QED BY <1>3, <2>1, <3>1, <4>1 DEF Entered, Names
    <3>3. Open'
      BY <1>kept, <1>3, <1>6, ZenonT(30) DEF Regular, Open
    <3>4. ListedThere'
      BY <1>kept, <1>3, <1>6 DEF Regular, ListedThere
    <3>5. Nested'
      <4> SUFFICES ASSUME NEW i \in 1..l, i # 1
                   PROVE  \E y \in stack'[i - 1].seen :
                            stack'[i].node = Append(stack'[i - 1].node, y)
        BY <1>3 DEF Nested
      <4>1. i - 1 \in 1..l
        BY <1>1
      <4>2. PICK y \in stack[i - 1].seen : stack[i].node = Append(stack[i - 1].node, y)
        BY <1>3, <1>6 DEF Regular, Nested
      <4> QED BY <1>kept, <4>1, <4>2
    <3> QED BY <3>2, <3>3, <3>4, <3>5 DEF Regular
  <2> QED BY <2>2, <2>3
<1> QED BY <1>5, <1>6, TooLongStays DEF Walking

\* When the array is full, the directory that does not fit is too deep.
LEMMA FullIsDeep ==
  ASSUME IInv, Walking, Regular, op = "readdir", Full(stack),
         NEW x \in Name, x \notin Top.seen, KindOf(x) = "dir",
         x \in DOMAIN Top.listed \cup Removal!Entries(tree, Top.node)
  PROVE  \E n \in Node : Inside(n) /\ tree[n] = "dir" /\ Len(n) >= Len(Target) + Depth
<1> DEFINE l == Len(stack)
           c == Append(Top.node, x)
<1>1. /\ l \in Nat \ {0} /\ Opened = 1..l /\ Top = stack[l] /\ l \in 1..l /\ l = Depth
      /\ Top.node \in Node
  BY StackFacts DEF Opened, Top, Full
<1> HIDE DEF l
<1>2. c \in Node /\ tree[c] = "dir"
  <2>1. CASE x \in DOMAIN Top.listed
    BY <1>1, <2>1 DEF KindOf, Regular, ListedThere
  <2>2. CASE x \notin DOMAIN Top.listed
    BY <2>2 DEF KindOf, Removal!Entries, Node
  <2> QED BY <2>1, <2>2
<1>3. Len(Top.node) = Len(Target) + (l - 1) /\ Len(Target) \in Nat
  BY <1>1, TargetAssumption, NodeIsSeq, HeightAssumption DEF Regular, Open
<1>5. Inside(c)
  BY <1>2, EnteredInside DEF Walking
<1>4. Len(c) = Len(Target) + l
  <2>1. Top.node \in Seq(Name)
    BY <1>1, NodeIsSeq
  <2>2. Len(c) = Len(Top.node) + 1
    BY <2>1
  <2> QED BY <1>1, <1>3, <2>2
<1> HIDE DEF c
<1> QED BY <1>1, <1>2, <1>3, <1>4, <1>5

LEMMA ReaddirWalks ==
  ASSUME IInv, Walking, OnReaddirEntry, op' # "failed"
  PROVE  Walking' /\ CrashOnlyWhenTooDeep'
<1>1. PICK x \in (DOMAIN Top.listed \cup Removal!Entries(tree, Top.node)) \ Top.seen :
        ReadDirectory(x) \/ ReadFile(x) \/ ReadOther(x)
  BY DEF OnReaddirEntry
<1>2. op = "readdir" /\ UNCHANGED <<tree, changes>> /\ Next
  BY DEF OnReaddirEntry, Next, Callback
<1>3. x \in Name
  <2>1. Top \in Entry
    BY TopIsEntry DEF IInv
  <2>2. PICK S \in SUBSET Name : Top.listed \in [S -> Removal!Kind]
    BY <2>1 DEF Entry
  <2> QED BY <2>2 DEF Removal!Entries
<1>4. x \in Seq(Char) /\ Append(x, Slash) \in Seq(Char)
  BY <1>3, NameAssumption
<1>5. CASE ReadFile(x)
  <2>1. str' = Put(Top.end, x) /\ stack' = Seen(x) /\ op' = "unlink"
    BY <1>5 DEF ReadFile
  <2> QED BY <1>2, <1>3, <1>4, <2>1, SeenWalks DEF CrashOnlyWhenTooDeep
<1>6. CASE ReadDirectory(x) /\ Full(stack)
  <2>1. /\ str' = Put(Top.end, Append(x, Slash)) /\ stack' = Seen(x) /\ op' = "crashed"
        /\ KindOf(x) = "dir"
    BY <1>6 DEF ReadDirectory
  <2>2. Walking'
    BY <1>2, <1>3, <1>4, <2>1, SeenWalks
  <2>3. CASE Regular
    BY <1>1, <1>2, <1>3, <1>6, <2>1, <2>2, <2>3, FullIsDeep DEF CrashOnlyWhenTooDeep
  <2>4. CASE TooLong
    <3>1. PICK n \in Node : Inside(n) /\ tree[n] = "dir" /\ Len(Path[n]) > Capacity
      BY <2>4 DEF TooLong
    <3>2. Len(Path[n]) + 1 > Capacity
      BY <3>1, PathBounds, CapacityAssumption
    <3> QED BY <1>2, <2>2, <3>1, <3>2 DEF CrashOnlyWhenTooDeep
  <2> QED BY <2>2, <2>3, <2>4 DEF Walking
<1>7. CASE ReadDirectory(x) /\ ~Full(stack)
  <2>1. /\ str' = Put(Top.end, Append(x, Slash)) /\ op' = "opendir"
        /\ stack' = Append(Seen(x), Reserve(Len(str')))
        /\ KindOf(x) = "dir"
    BY <1>7 DEF ReadDirectory
  <2>2. Walking'
    BY <1>1, <1>2, <1>3, <2>1, EnterWalks
  <2> QED BY <2>1, <2>2 DEF CrashOnlyWhenTooDeep
<1>8. CASE ReadOther(x)
  BY <1>8 DEF ReadOther
<1> QED BY <1>1, <1>5, <1>6, <1>7, <1>8

-----------------------------------------------------------------------------
\* The invariant of the walk.
WalkIInv == IInv /\ WalkInv /\ CrashOnlyWhenTooDeep

LEMMA InitWalks == Init /\ TargetFits => WalkInv /\ CrashOnlyWhenTooDeep
<1> SUFFICES ASSUME Init, TargetFits PROVE WalkInv /\ CrashOnlyWhenTooDeep
  OBVIOUS
<1>1. op = "opendir" /\ Len(stack) = 1 /\ str = Append(Path[Target], Slash)
  BY InitString DEF Init
<1>2. str[Len(str)] = Slash
  BY <1>1, TargetPath, NameAssumption
<1>3. Opened = {}
  BY <1>1 DEF Opened
<1>4. Named /\ Regular
  BY <1>1, <1>2, <1>3 DEF Named, Regular, Open, ListedThere, Nested, Entered
<1> QED BY <1>1, <1>4 DEF WalkInv, CrashOnlyWhenTooDeep

LEMMA WalkStep == ASSUME WalkIInv, [Next]_vars PROVE WalkIInv'
<1>1. IInv'
  BY NextStep DEF WalkIInv
<1>2. CASE UNCHANGED vars
  <2>1. UNCHANGED <<tree, str, stack, op, changes>>
    BY <1>2 DEF vars
  <2>2. WalkInv'
    BY <2>1 DEF WalkIInv, WalkInv, Named, Regular, Open, ListedThere, Nested, Entered,
                TooLong, Opened
  <2> QED BY <1>1, <2>1, <2>2 DEF WalkIInv, CrashOnlyWhenTooDeep
<1>3. CASE Next
  <2>1. op \notin Ended
    BY <1>3 DEF Next, Callback, Ended, OnOpendir, OnReaddirEntry, OnReaddirEnd, OnUnlink,
                OnClosedir, OnRmdir, OnError, Others
  <2>2. Walking /\ IInv
    BY <2>1 DEF WalkIInv, WalkInv, Walking, Ended
  <2>3. CASE op' \in {"done", "failed"}
    BY <1>1, <2>3 DEF WalkIInv, WalkInv, CrashOnlyWhenTooDeep
  <2>4. CASE op' \notin {"done", "failed"}
    <3>1. CASE OnReaddirEntry
      BY <1>1, <2>2, <2>4, <3>1, ReaddirWalks DEF WalkIInv, WalkInv, Walking
    <3>2. CASE OnOpendir
      BY <1>1, <2>2, <3>2, OpendirWalks
         DEF WalkIInv, WalkInv, Walking, CrashOnlyWhenTooDeep, OnOpendir
    <3>3. CASE OnUnlink
      BY <1>1, <2>2, <3>3, UnlinkWalks
         DEF WalkIInv, WalkInv, Walking, CrashOnlyWhenTooDeep, OnUnlink
    <3>4. CASE OnRmdir
      <4>1. op' # "crashed"
        BY <3>4 DEF OnRmdir
      <4> QED BY <1>1, <2>2, <2>4, <3>4, <4>1, RmdirWalks
              DEF WalkIInv, WalkInv, Walking, CrashOnlyWhenTooDeep
    <3>5. CASE OnReaddirEnd \/ OnClosedir \/ Others
      BY <1>1, <2>1, <2>2, <3>5, StayWalks DEF WalkIInv, WalkInv, Walking, CrashOnlyWhenTooDeep
    <3>6. CASE OnError
      BY <2>4, <3>6 DEF OnError
    <3> QED BY <1>3, <3>1, <3>2, <3>3, <3>4, <3>5, <3>6 DEF Next, Callback
  <2> QED BY <2>3, <2>4
<1> QED BY <1>2, <1>3

LEMMA WalkInvariant == TargetFits /\ Spec => []WalkIInv
<1>1. Init /\ TargetFits => WalkIInv
  BY InitType, InitShape, InitWalks DEF WalkIInv, IInv
<1>2. WalkIInv /\ [Next]_vars => WalkIInv'
  BY WalkStep
<1> QED BY <1>1, <1>2, PTL DEF Spec

\* Whenever a directory is listed, closed or removed, the buffer holds its
\* path and nothing behind it, also when the path just fits.
THEOREM BufferIsRight == TargetFits /\ Spec => []BufferNamesTop
<1>1. WalkIInv => BufferNamesTop
  <2> SUFFICES ASSUME WalkIInv, op \in {"readdir", "closedir", "rmdir"}
               PROVE  Len(str) = Top.end /\ Names(str, Top.node)
    BY DEF BufferNamesTop
  <2>1. Named /\ IInv
    BY DEF WalkIInv, WalkInv
  <2> QED BY <2>1, TopNamed DEF IInv, Shape
<1> QED BY <1>1, WalkInvariant, PTL

\* The walk dereferences the null pointer of a full array only for a
\* directory deeper than the array, or when a path did not fit the buffer.
THEOREM CrashNeedsDepth == TargetFits /\ Spec => []CrashOnlyWhenTooDeep
<1>1. WalkIInv => CrashOnlyWhenTooDeep
  BY DEF WalkIInv
<1> QED BY <1>1, WalkInvariant, PTL
=============================================================================
