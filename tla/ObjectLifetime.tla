--------------------------- MODULE ObjectLifetime ---------------------------
(***************************************************************************)
(* What the storage promises about one object, whatever the order of       *)
(* calls: it lives while something refers to it; when the last reference   *)
(* goes it is condemned for good; condemned objects are destroyed one at a *)
(* time; memory is reclaimed only after the destruction has ended.         *)
(***************************************************************************)
CONSTANTS Obj, Ref

VARIABLES
    refs,   \* refs[o]: what refers to o
    phase   \* phase[o] \in Phases

Phases == {"unborn", "alive", "condemned", "dying", "dead"}

lifetimeVars == <<refs, phase>>

Init ==
    /\ refs = [o \in Obj |-> {}]
    /\ phase = [o \in Obj |-> "unborn"]

Dying == {o \in Obj : phase[o] = "dying"}

Create(o, R) ==
    /\ phase[o] = "unborn"
    /\ R # {}
    /\ refs' = [refs EXCEPT ![o] = R]
    /\ phase' = [phase EXCEPT ![o] = "alive"]

Refer(o, r) ==
    /\ phase[o] = "alive"
    /\ refs' = [refs EXCEPT ![o] = @ \cup {r}]
    /\ UNCHANGED phase

\* Drop a set of references: the objects that lose their last are condemned.
Forget(R) ==
    /\ refs' = [o \in Obj |-> refs[o] \ R]
    /\ phase' = [o \in Obj |->
         IF phase[o] = "alive" /\ refs[o] \subseteq R THEN "condemned" ELSE phase[o]]

\* Objects whose destruction has ended are reclaimed; another's may begin
\* when none is left dying.
Turn(Ended, Begun) ==
    /\ Ended \subseteq Dying
    /\ \A o \in Begun : phase[o] = "condemned" /\ Dying = Ended
    /\ \A o, p \in Begun : o = p
    /\ phase' = [o \in Obj |-> IF o \in Ended THEN "dead"
                               ELSE IF o \in Begun THEN "dying" ELSE phase[o]]
    /\ UNCHANGED refs

Next ==
    \/ \E o \in Obj, R \in SUBSET Ref : Create(o, R)
    \/ \E o \in Obj, r \in Ref : Refer(o, r)
    \/ \E R \in SUBSET Ref : Forget(R)
    \/ \E Ended, Begun \in SUBSET Obj : Turn(Ended, Begun)

Spec == Init /\ [][Next]_lifetimeVars
=============================================================================
